---- MODULE Spec2Model ----
(***************************************************************************)
(* A model of the regular-language pipeline of XIYU11864/regular-language: *)
(*   regex syntax tree -> NFA with epsilon transitions (Thompson, built    *)
(*   top-down with a stack of holes) -> NFA without epsilon transitions    *)
(*   -> sparse DFA (subset construction over bitmask ids) -> dense DFA     *)
(*   -> minimized dense DFA (table filling).                               *)
(* State ids are 0-based as in the source; TLA+ sequences are 1-based, so  *)
(* the state with id i is element i + 1 of a state table.                  *)
(***************************************************************************)
EXTENDS Integers, Sequences, FiniteSets, TLC

VARIABLES hir, events, builder, nfa, non_epsilon_nfa, new_dfa, newnew_dfa,
          minimized, second, pc, failure, indistin_groups, inserted

vars == <<hir, events, builder, nfa, non_epsilon_nfa, new_dfa, newnew_dfa,
          minimized, second, pc, failure, indistin_groups, inserted>>

\* An IndistinGroups driven by insert_pair calls, and the pairs inserted.
groupvars == <<indistin_groups, inserted>>

(***************************************************************************)
(* Bounds of the model.                                                    *)
(***************************************************************************)
\* The syntax trees enumerated at Init have at most this many nodes.
MaxNodes == 4
\* The NFAs built by hand at Init have at most this many states.
MaxNfaStates == 2
\* insert_pair is called on pairs of states below this number,
MaxGroupStates == 6
\* at most this many times.
MaxInsertCalls == 4
\* Input strings tried against the automata have at most this many symbols.
MaxStrLen == 4
\* A caller of the methods of NFA adds at most this many states
MaxBuildStates == 2
\* and this many transitions.
MaxBuildEdges == 2

(***************************************************************************)
(* Bytes of the binary alphabet.                                           *)
(***************************************************************************)
Byte0 == 48
Byte1 == 49

\* The messages of the panics of minimization.
PanicMessages ==
    { "attempt to subtract with overflow", "removal index out of bounds",
      "index out of bounds", "invalid input", "no such a state",
      "key not found in id_map", "called Option::unwrap() on a None value",
      "assertion failed: new_id == number_of_distin" }

\* Option<T>: None is the empty sequence, Some(x) the one-element sequence.
None == <<>>
Some(x) == <<x>>

RECURSIVE SeqToSet(_)
SeqToSet(s) == IF s = <<>> THEN {} ELSE {Head(s)} \cup SeqToSet(Tail(s))

RECURSIVE Pow2(_)
Pow2(n) == IF n = 0 THEN 1 ELSE 2 * Pow2(n - 1)

RECURSIVE SetToSeq(_)
SetToSeq(S) ==
    IF S = {} THEN <<>>
    ELSE LET x == CHOOSE y \in S : \A z \in S : y <= z
         IN <<x>> \o SetToSeq(S \ {x})

(***************************************************************************)
(* Syntax trees (regex_syntax::hir::Hir as the builder reads it): a kind,  *)
(* the bytes of a Literal or of a Class's ranges, and the children.        *)
(***************************************************************************)
Node(kind, bytes, subs) == [kind |-> kind, bytes |-> bytes, subs |-> subs]
Lit(bytes) == Node("Literal", bytes, <<>>)
Class(bytes) == Node("Class", bytes, <<>>)
Empty == Node("Empty", <<>>, <<>>)
Look == Node("Look", <<>>, <<>>)
Rep(x) == Node("Repetition", <<>>, <<x>>)
Capture(x) == Node("Capture", <<>>, <<x>>)
Concat(xs) == Node("Concat", <<>>, xs)
Alternation(xs) == Node("Alternation", <<>>, xs)

\* The order in which hir::visit calls the visitor: visit_pre on a node,
\* then its children left to right, then visit_post on the node.
RECURSIVE Walk(_)
RECURSIVE WalkAll(_)
Walk(h) ==
    <<[ev |-> "pre", kind |-> h.kind, bytes |-> h.bytes, nsubs |-> Len(h.subs)]>>
    \o WalkAll(h.subs)
    \o <<[ev |-> "post", kind |-> h.kind, bytes |-> h.bytes, nsubs |-> Len(h.subs)]>>
WalkAll(hs) == IF hs = <<>> THEN <<>> ELSE Walk(Head(hs)) \o WalkAll(Tail(hs))

(***************************************************************************)
(* NFA states and the NFA.  The field panic is not a field of the struct:  *)
(* it records that an operation panicked, after which nothing more is      *)
(* done to the value.  The transitions of a NonEpsilon state are kept as a *)
(* set of (input, target) pairs: the order and multiplicity of the Vec are *)
(* never read (deltas sorts and groups it, encode_subset ORs the targets). *)
(***************************************************************************)
NewEpsilon == [kind |-> "Epsilon", eps |-> <<>>, trans |-> {}]
NewNonEpsilon == [kind |-> "NonEpsilon", eps |-> <<>>, trans |-> {}]
NewFail == [kind |-> "Fail", eps |-> <<>>, trans |-> {}]
NewFinal == [kind |-> "Final", eps |-> <<>>, trans |-> {}]

InitEmpty ==
    [states |-> <<>>, alphabet |-> {}, start_state |-> None,
     accept_states |-> <<>>, panic |-> None]

Panicked(n) == n.panic # None
PanicWith(n, msg) == IF Panicked(n) THEN n ELSE [n EXCEPT !.panic = Some(msg)]

StateAt(n, id) == n.states[id + 1]
NumStates(n) == Len(n.states)

AddState(n, state) ==
    IF Panicked(n) THEN n ELSE [n EXCEPT !.states = Append(@, state)]

\* An add_transition that does not look at the kind of the state.
AddTransitionAnyKind(n, from, input, to) ==
    IF Panicked(n) THEN n
    ELSE IF from >= NumStates(n) THEN PanicWith(n, "index out of bounds")
    ELSE [n EXCEPT !.states[from + 1].trans = @ \cup {<<input, to>>},
                   !.alphabet = @ \cup {input}]

AddTransition(n, from, input, to) ==
    IF Panicked(n) THEN n
    ELSE IF from >= NumStates(n) THEN PanicWith(n, "index out of bounds")
    ELSE IF StateAt(n, from).kind = "NonEpsilon"
         THEN [n EXCEPT !.states[from + 1].trans = @ \cup {<<input, to>>},
                        !.alphabet = @ \cup {input}]
         ELSE PanicWith(n, "add_transition: from state should be a non-epsilon state")

AddEpsilonTransition(n, from, to) ==
    IF Panicked(n) THEN n
    ELSE IF from >= NumStates(n) THEN PanicWith(n, "index out of bounds")
    ELSE IF StateAt(n, from).kind = "Epsilon"
         THEN [n EXCEPT !.states[from + 1].eps = Append(@, to)]
         ELSE PanicWith(n, "add_epsilon_transition: from state should be a epsilon state")

SetStartState(n, id) == IF Panicked(n) THEN n ELSE [n EXCEPT !.start_state = Some(id)]
SetAcceptState(n, id) ==
    IF Panicked(n) THEN n ELSE [n EXCEPT !.accept_states = Append(@, id)]

(***************************************************************************)
(* The Thompson builder: the NFA under construction and the stack of       *)
(* holes.  err is the Err value a visitor callback returned, if any.       *)
(***************************************************************************)
Hole(kind, come_from, go_to) ==
    [hole |-> kind, come_from |-> come_from, go_to |-> go_to]

BuilderNew == [nfa |-> InitEmpty, stack |-> <<>>, err |-> None]

Push(stack, h) == Append(stack, h)
Top(stack) == stack[Len(stack)]
Pop(stack) == SubSeq(stack, 1, Len(stack) - 1)

RECURSIVE PushTimes(_, _, _)
PushTimes(stack, h, k) == IF k = 0 THEN stack ELSE PushTimes(Push(stack, h), h, k - 1)

\* build_nfa_from_re up to the call of hir::visit.
BuilderStart(b) ==
    LET end == NumStates(b.nfa)
        n1 == SetAcceptState(AddState(b.nfa, NewFail), end)
        start == NumStates(n1)
        n2 == SetStartState(AddState(n1, NewEpsilon), start)
    IN [b EXCEPT !.nfa = n2, !.stack = Push(@, Hole("Alternation", start, end))]

\* A Literal node read as its first byte alone.
LiteralFirstByte(n, current, bytes, end) ==
    IF bytes = <<>> THEN n ELSE AddTransition(n, current, bytes[1], end)

\* The chain of non-epsilon states of a Literal node.
RECURSIVE LiteralChain(_, _, _, _)
LiteralChain(n, current, bytes, end) ==
    IF bytes = <<>> THEN n
    ELSE IF Len(bytes) = 1 THEN AddTransition(n, current, bytes[1], end)
    ELSE LET new_state == NumStates(n)
             n1 == AddTransition(AddState(n, NewNonEpsilon), current, bytes[1], new_state)
         IN LiteralChain(n1, new_state, Tail(bytes), end)

RECURSIVE ClassTrans(_, _, _, _)
ClassTrans(n, start, bytes, end) ==
    IF bytes = <<>> THEN n
    ELSE ClassTrans(AddTransition(n, start, Head(bytes), end), start, Tail(bytes), end)

\* The Err values of visit_pre.
StackEmptyErr == "stack is empty"
LookErr == "unexpected \"Look\" syntax"

\* A visit_pre that takes every kind of node.
NoKindUnsupported(kind) == FALSE

\* The kinds of node visit_pre returns an Err for.
UnsupportedKind(kind) == kind = "Look"

VisitPre(b, e) ==
    LET end == NumStates(b.nfa)
        n1 == AddState(b.nfa, NewEpsilon)
    IN IF b.stack = <<>> THEN [b EXCEPT !.nfa = n1, !.err = Some(StackEmptyErr)]
       ELSE
       LET hole == Top(b.stack)
           come_from == hole.come_from
           go_to == hole.go_to
           stack1 == IF hole.hole = "Concatenation"
                     THEN Push(Pop(b.stack), Hole("Concatenation", end, go_to))
                     ELSE Pop(b.stack)
           start == NumStates(n1)
       IN IF UnsupportedKind(e.kind)
          THEN [nfa |-> n1, stack |-> stack1, err |-> Some(LookErr)]
          ELSE
          LET n2 == CASE e.kind = "Literal" ->
                           LiteralChain(AddState(n1, NewNonEpsilon), start, e.bytes, end)
                      [] e.kind = "Class" ->
                           ClassTrans(AddState(n1, NewNonEpsilon), start, e.bytes, end)
                      [] e.kind \in {"Repetition", "Empty"} ->
                           AddEpsilonTransition(AddState(n1, NewEpsilon), start, end)
                      [] OTHER -> AddState(n1, NewEpsilon)
              stack2 == CASE e.kind = "Concat" ->
                               Push(stack1, Hole("Concatenation", start, end))
                          [] e.kind = "Alternation" ->
                               PushTimes(stack1, Hole("Alternation", start, end), e.nsubs)
                          [] e.kind = "Repetition" ->
                               Push(stack1, Hole("Repetition", start, end))
                          [] e.kind = "Capture" ->
                               Push(stack1, Hole("Alternation", start, end))
                          [] OTHER -> stack1
              n3 == AddEpsilonTransition(n2, come_from, start)
              n4 == CASE hole.hole = "Repetition" ->
                           AddEpsilonTransition(AddEpsilonTransition(n3, end, go_to),
                                                end, start)
                      [] hole.hole = "Alternation" ->
                           AddEpsilonTransition(n3, end, go_to)
                      [] OTHER -> n3
          IN [nfa |-> n4, stack |-> stack2, err |-> None]

\* A visit_post that leaves the stack and the NFA as they are.
VisitPostKeepsHole(b, e) == b

VisitPost(b, e) ==
    IF e.kind = "Concat" /\ b.stack # <<>>
    THEN LET top == Top(b.stack)
         IN IF top.hole = "Concatenation"
            THEN [b EXCEPT !.stack = Pop(@),
                           !.nfa = AddEpsilonTransition(@, top.come_from, top.go_to)]
            ELSE [b EXCEPT !.stack = Pop(@)]
    ELSE b

Finish(b) ==
    IF b.stack # <<>>
    THEN LET top == Top(b.stack)
         IN IF top.hole = "Concatenation"
            THEN [b EXCEPT !.stack = Pop(@),
                           !.nfa = AddEpsilonTransition(@, top.come_from, top.go_to)]
            ELSE [b EXCEPT !.stack = Pop(@)]
    ELSE b

(***************************************************************************)
(* Epsilon closures, written as the explicit-stack loops of the source.    *)
(***************************************************************************)
\* A filter that lets only the first epsilon successor through.
NotInFirstOnly(closure, tos) ==
    SelectSeq(SubSeq(tos, 1, 1), LAMBDA to : to \notin closure)

NotIn(closure, tos) == SelectSeq(tos, LAMBDA to : to \notin closure)

\* epsilon_closure_and_dalta: the closure (a Vec, in visiting order) and the
\* non-epsilon transitions leaving any state of it.
RECURSIVE ClosureAndDaltaLoop(_, _, _, _)
ClosureAndDaltaLoop(n, closure, stack, target) ==
    IF stack = <<>> THEN [closure |-> closure, target |-> target]
    ELSE LET state == Top(stack)
             closure1 == Append(closure, state)
             st == StateAt(n, state)
         IN CASE st.kind = "Epsilon" ->
                   ClosureAndDaltaLoop(n, closure1,
                       Pop(stack) \o NotIn(SeqToSet(closure1), st.eps), target)
              [] st.kind = "NonEpsilon" ->
                   ClosureAndDaltaLoop(n, closure1, Pop(stack), target \cup st.trans)
              [] OTHER -> ClosureAndDaltaLoop(n, closure1, Pop(stack), target)

EpsilonClosureAndDalta(n, state) == ClosureAndDaltaLoop(n, <<>>, <<state>>, {})

\* epsilon_closure_to_non_epsilon: the states of the closure that are not
\* Epsilon states (target), and the local set of visited states (closure).
RECURSIVE ClosureToNonEpsilonLoop(_, _, _, _)
ClosureToNonEpsilonLoop(n, closure, stack, target) ==
    IF stack = <<>> THEN [closure |-> closure, target |-> target]
    ELSE LET state == Top(stack)
             closure1 == closure \cup {state}
             st == StateAt(n, state)
         IN IF st.kind = "Epsilon"
            THEN ClosureToNonEpsilonLoop(n, closure1,
                     Pop(stack) \o NotIn(closure1, st.eps), target)
            ELSE ClosureToNonEpsilonLoop(n, closure1, Pop(stack), target \cup {state})

EpsilonClosureToNonEpsilon(n, state) ==
    ClosureToNonEpsilonLoop(n, {}, <<state>>, {}).target

\* get_dalta_hat_transitions: the transition function with the epsilon
\* transitions folded in.
GetDaltaHatTransitions(n, state) ==
    LET non_epsilon_transet == EpsilonClosureAndDalta(n, state).target
    IN UNION { { <<tr[1], s>> : s \in EpsilonClosureToNonEpsilon(n, tr[2]) }
               : tr \in non_epsilon_transet }

\* NFA::search_unreachable_states: the states the stack-based search from the
\* start state does not reach over non-epsilon transitions.
RECURSIVE NfaReachLoop(_, _, _)
NfaReachLoop(n, reachable, stack) ==
    IF stack = <<>> THEN reachable
    ELSE LET state == Top(stack)
         IN IF state \in reachable THEN NfaReachLoop(n, reachable, Pop(stack))
            ELSE LET st == StateAt(n, state)
                     next == IF st.kind = "NonEpsilon" THEN st.trans ELSE {}
                 IN NfaReachLoop(n, reachable \cup {state},
                        Pop(stack) \o SetToSeq({tr[2] : tr \in next}))

\* A search that reports every state but the start state as unreachable.
NfaSearchAllButStart(n) ==
    (0 .. NumStates(n) - 1) \ {n.start_state[1]}

NfaSearchUnreachableStates(n) ==
    (0 .. NumStates(n) - 1) \ NfaReachLoop(n, {}, <<n.start_state[1]>>)

\* The old-id -> new-id table of remap_states: None for a Fail state.
RECURSIVE RemapIdMap(_, _)
RemapIdMap(states, new_index) ==
    IF states = <<>> THEN <<>>
    ELSE IF Head(states).kind = "Fail"
         THEN <<None>> \o RemapIdMap(Tail(states), new_index)
         ELSE <<Some(new_index)>> \o RemapIdMap(Tail(states), new_index + 1)

\* remap_trans on one state.
RemapTrans(st, id_map) ==
    IF st.kind = "NonEpsilon"
    THEN [st EXCEPT !.trans = { <<tr[1], id_map[tr[2] + 1][1]>> : tr \in @ }]
    ELSE st

\* remap_states: drop the Fail states and renumber the rest.
RemapStates(n) ==
    IF Panicked(n) THEN n
    ELSE LET id_map == RemapIdMap(n.states, 0)
             bad == \E i \in 1 .. Len(n.states) :
                        /\ n.states[i].kind = "NonEpsilon"
                        /\ \E tr \in n.states[i].trans : id_map[tr[2] + 1] = None
         IN IF bad THEN PanicWith(n, "map to a fail state")
            ELSE [n EXCEPT !.states =
                     SelectSeq([i \in 1 .. Len(n.states) |-> RemapTrans(n.states[i], id_map)],
                               LAMBDA st : st.kind # "Fail")]

\* First loop of build_non_epsilon_nfa: one new state per old state.
NonEpsilonKind(old, state_id) ==
    IF GetDaltaHatTransitions(old, state_id) = {}
    THEN IF state_id \in SeqToSet(old.accept_states) THEN NewFinal ELSE NewFail
    ELSE NewNonEpsilon

\* Second loop: the delta-hat transitions of the states that have some,
\* without those into a Fail state.
NonEpsilonTrans(old, kinds, state_id) ==
    IF kinds[state_id + 1].kind = "NonEpsilon"
    THEN [kinds[state_id + 1] EXCEPT !.trans =
             { tr \in GetDaltaHatTransitions(old, state_id) :
                   kinds[tr[2] + 1].kind # "Fail" }]
    ELSE kinds[state_id + 1]

MarkUnreachable(n) ==
    LET unreachable == NfaSearchUnreachableStates(n)
    IN [n EXCEPT !.states = [i \in 1 .. Len(n.states) |->
                               IF (i - 1) \in unreachable THEN NewFail ELSE n.states[i]]]

\* build_non_epsilon_nfa up to the call of remap_states.
BeforeRemapStates(old) ==
    LET len == NumStates(old)
        kinds == [i \in 1 .. len |-> NonEpsilonKind(old, i - 1)]
        states == [i \in 1 .. len |-> NonEpsilonTrans(old, kinds, i - 1)]
        alphabet == UNION { { tr[1] : tr \in states[i].trans } : i \in 1 .. len }
        n1 == [InitEmpty EXCEPT !.states = states, !.alphabet = alphabet]
    IN IF old.start_state = None
       THEN PanicWith(n1, "called Option::unwrap() on a None value")
       ELSE IF old.accept_states = <<>>
       THEN PanicWith(n1, "index out of bounds")
       ELSE IF old.start_state[1] >= len
       THEN PanicWith(n1, "index out of bounds")
       ELSE MarkUnreachable(
                SetAcceptState(SetStartState(n1, old.start_state[1]),
                               old.accept_states[1]))

BuildNonEpsilonNfa(old) == RemapStates(BeforeRemapStates(old))

(***************************************************************************)
(* Subset construction.  A DFA state id is the bitmask of the NFA states   *)
(* it stands for.                                                          *)
(***************************************************************************)
\* to_dfa_state_id: 1 << id.
ToDfaStateId(id) == Pow2(id)

\* encode_subset!: the OR of 1 << i over the subset.
RECURSIVE EncodeSubset(_)
EncodeSubset(S) ==
    IF S = {} THEN 0
    ELSE LET i == CHOOSE x \in S : TRUE IN Pow2(i) + EncodeSubset(S \ {i})

\* The loop of build_dfa_from_nfa that takes an id apart, bit by bit, into
\* the ids of its singletons.
RECURSIVE SplitBits(_, _)
SplitBits(encoded_subset, bit) ==
    IF encoded_subset = 0 THEN <<>>
    ELSE (IF encoded_subset % 2 = 1 THEN <<ToDfaStateId(bit)>> ELSE <<>>)
         \o SplitBits(encoded_subset \div 2, bit + 1)

RECURSIVE BitPositions(_, _)
BitPositions(encoded_subset, bit) ==
    IF encoded_subset = 0 THEN {}
    ELSE (IF encoded_subset % 2 = 1 THEN {bit} ELSE {})
         \cup BitPositions(encoded_subset \div 2, bit + 1)

\* a | b on state ids.
BitOr(a, b) == EncodeSubset(BitPositions(a, 0) \cup BitPositions(b, 0))
\* a & b on state ids.
BitAnd(a, b) == EncodeSubset(BitPositions(a, 0) \cap BitPositions(b, 0))

\* NFA::deltas: the targets of a NonEpsilon state grouped by input.
Deltas(n, state_id) ==
    LET st == StateAt(n, state_id)
    IN IF st.kind = "NonEpsilon"
       THEN { <<input, { tr[2] : tr \in { t \in st.trans : t[1] = input } }>>
              : input \in { tr[1] : tr \in st.trans } }
       ELSE {}

State01New == [zero_to |-> 0, one_to |-> 0]

\* HashMap insert / entry().or_insert on the state map.
PutState(states, id, st) ==
    [k \in DOMAIN states \cup {id} |-> IF k = id THEN st ELSE states[k]]
GetStateById(states, id) ==
    IF id \in DOMAIN states THEN states ELSE PutState(states, id, State01New)

\* The seeding loop: the singleton of NFA state id, its successors read
\* from the NFA's own transitions.
SeedState(n, id) ==
    LET ds == Deltas(n, id)
        on(input) == IF \E d \in ds : d[1] = input
                     THEN EncodeSubset((CHOOSE d \in ds : d[1] = input)[2])
                     ELSE 0
    IN [zero_to |-> on(Byte0), one_to |-> on(Byte1)]

\* A seeding loop that pushes the successor on '0' only.
SeedPushesZeroOnly(n, id, states_directly_from_nfa) ==
    LET s == SeedState(n, id)
    IN IF (\E d \in Deltas(n, id) : d[1] = Byte0)
          /\ s.zero_to \notin states_directly_from_nfa
       THEN <<s.zero_to>> ELSE <<>>

\* What the seeding loop pushes for NFA state id: every successor that is
\* not a singleton, in the order of the inputs.
SeedPushes(n, id, states_directly_from_nfa) ==
    LET s == SeedState(n, id)
        ds == Deltas(n, id)
        has(input) == \E d \in ds : d[1] = input
    IN (IF has(Byte0) /\ s.zero_to \notin states_directly_from_nfa
        THEN <<s.zero_to>> ELSE <<>>)
       \o (IF has(Byte1) /\ s.one_to \notin states_directly_from_nfa
           THEN <<s.one_to>> ELSE <<>>)

RECURSIVE SeedStack(_, _, _)
SeedStack(n, id, singles) ==
    IF id >= NumStates(n) THEN <<>>
    ELSE SeedPushes(n, id, singles) \o SeedStack(n, id + 1, singles)

\* The successors of the first singleton alone.
FirstSuccessors(states, subset) ==
    IF subset = <<>> THEN [zero_to |-> 0, one_to |-> 0]
    ELSE LET st == GetStateById(states, Head(subset))[Head(subset)]
         IN [zero_to |-> st.zero_to, one_to |-> st.one_to]

\* The OR of the successors of the singletons of a subset.
RECURSIVE OrSuccessors(_, _)
OrSuccessors(states, subset) ==
    IF subset = <<>> THEN [zero_to |-> 0, one_to |-> 0]
    ELSE LET st == GetStateById(states, Head(subset))[Head(subset)]
             rest == OrSuccessors(states, Tail(subset))
         IN [zero_to |-> BitOr(st.zero_to, rest.zero_to),
             one_to |-> BitOr(st.one_to, rest.one_to)]

RECURSIVE InsertAll(_, _)
InsertAll(states, ids) ==
    IF ids = <<>> THEN states ELSE InsertAll(GetStateById(states, Head(ids)), Tail(ids))

\* The work-stack loop of build_dfa_from_nfa.
RECURSIVE SubsetLoop(_, _)
SubsetLoop(states, stack) ==
    IF stack = <<>> THEN states
    ELSE LET state_id == Top(stack)
             subset == SplitBits(state_id, 0)
             to == OrSuccessors(states, subset)
             states1 == PutState(InsertAll(states, subset), state_id,
                                 [zero_to |-> to.zero_to, one_to |-> to.one_to])
             stack1 == Pop(stack)
                       \o (IF to.one_to \notin DOMAIN states1 THEN <<to.one_to>> ELSE <<>>)
                       \o (IF to.zero_to \notin DOMAIN states1 THEN <<to.zero_to>> ELSE <<>>)
         IN SubsetLoop(states1, stack1)

\* DFA01::search_unreachable_states.  get_state_by_id inserts an empty
\* state for an id the map does not hold, so the search also changes the map.
RECURSIVE DfaReachLoop(_, _, _)
DfaReachLoop(states, reachable, stack) ==
    IF stack = <<>> THEN [states |-> states, reachable |-> reachable]
    ELSE LET state_id == Top(stack)
             reachable1 == reachable \cup {state_id}
             states1 == GetStateById(states, state_id)
             state == states1[state_id]
         IN DfaReachLoop(states1, reachable1,
                Pop(stack)
                \o (IF state.zero_to \notin reachable1 THEN <<state.zero_to>> ELSE <<>>)
                \o (IF state.one_to \notin reachable1 THEN <<state.one_to>> ELSE <<>>))

\* A search that reports no state unreachable.
SearchNothingUnreachable(dfa) ==
    [states |-> DfaReachLoop(dfa.states, {},
                             IF dfa.start_state = None THEN <<>>
                             ELSE <<dfa.start_state[1]>>).states,
     unreachable |-> {}]

DfaSearchUnreachableStates(dfa) ==
    LET r == DfaReachLoop(dfa.states, {},
                          IF dfa.start_state = None THEN <<>> ELSE <<dfa.start_state[1]>>)
    IN [states |-> r.states, unreachable |-> DOMAIN r.states \ r.reachable]

Dfa01InitEmpty ==
    [states |-> <<>>, alphabet |-> <<Byte0, Byte1>>, start_state |-> None,
     accept_states |-> {}, panic |-> None]

\* The accepting ids: those that hold the bit of the NFA's accept state.
MarkAccept(states, accept_bit) ==
    { id \in DOMAIN states : BitAnd(id, accept_bit) # 0 }

\* An alphabet check that only asks for '0' and '1' to be present.
AlphabetHas01(alphabet) == Byte0 \in alphabet /\ Byte1 \in alphabet

\* The most NFA states build_dfa_from_nfa takes: the bits of a u128 id.
StateCeiling == 128

\* The alphabet check of build_dfa_from_nfa.
AlphabetIs01(alphabet) ==
    Cardinality(alphabet) = 2 /\ Byte0 \in alphabet /\ Byte1 \in alphabet

\* A ceiling one state higher.
TooManyStatesAbove129(nfa_state_set_len) == nfa_state_set_len > StateCeiling + 1

\* The state map of build_dfa_from_nfa when the work-stack loop has ended:
\* the seeded singletons and what the loop registered.
SeedAndLoop(n) ==
    LET singles == { ToDfaStateId(id) : id \in 0 .. NumStates(n) - 1 }
        seeded == [id \in singles |->
                     SeedState(n, CHOOSE i \in 0 .. NumStates(n) - 1 :
                                      ToDfaStateId(i) = id)]
    IN SubsetLoop(seeded, SeedStack(n, 0, singles))

\* The ceiling check of build_dfa_from_nfa.
TooManyStates(nfa_state_set_len) == nfa_state_set_len > StateCeiling

BuildDfaFromNfa(n) ==
    LET nfa_state_set_len == NumStates(n)
    IN IF TooManyStates(nfa_state_set_len) THEN PanicWith(Dfa01InitEmpty, "too many states")
       ELSE IF ~AlphabetIs01(n.alphabet)
       THEN PanicWith(Dfa01InitEmpty, "alphabet is not {'0','1'}")
       ELSE IF n.start_state = None
       THEN PanicWith(Dfa01InitEmpty, "called Option::unwrap() on a None value")
       ELSE
       LET built == SeedAndLoop(n)
           start == ToDfaStateId(n.start_state[1])
           searched == DfaSearchUnreachableStates(
                           [Dfa01InitEmpty EXCEPT !.states = built,
                                                  !.start_state = Some(start)])
           kept == [id \in DOMAIN searched.states \ searched.unreachable |->
                       searched.states[id]]
       IN IF n.accept_states = <<>>
          THEN PanicWith(Dfa01InitEmpty, "index out of bounds")
          ELSE [Dfa01InitEmpty EXCEPT
                   !.states = kept,
                   !.start_state = Some(start),
                   !.accept_states = MarkAccept(kept, ToDfaStateId(n.accept_states[1]))]

(***************************************************************************)
(* The dense DFA: a flat table of successors (out_transitions) and one of  *)
(* predecessor lists (in_transitions), both indexed by                     *)
(* state * stride + alphabet index.                                        *)
(***************************************************************************)
RECURSIVE NextPowerOfTwoFrom(_, _)
NextPowerOfTwoFrom(p, len) == IF p >= len THEN p ELSE NextPowerOfTwoFrom(2 * p, len)
NextPowerOfTwo(len) == NextPowerOfTwoFrom(1, len)

RECURSIVE TrailingZeros(_)
TrailingZeros(p) == IF p <= 1 THEN 0 ELSE 1 + TrailingZeros(p \div 2)

\* Transisions::new_with_num_and_stride, with every cell holding fill.
NewWithNumAndStride(number_of_states, alphabet_len, fill) ==
    LET stride == NextPowerOfTwo(alphabet_len)
    IN [trans |-> [i \in 1 .. number_of_states * stride |-> fill],
        stride_as_power_of_2 |-> TrailingZeros(stride)]

Stride(t) == Pow2(t.stride_as_power_of_2)
TransNumberOfStates(t) == Len(t.trans) \div Pow2(t.stride_as_power_of_2)
NumberOfStates(d) == TransNumberOfStates(d.out_transitions)

\* alphabet_index_of: the position of the input in the alphabet (None when
\* it is not there, where the source panics).
AlphabetIndexOf(d, input) ==
    IF \E i \in 1 .. Len(d.alphabet) : d.alphabet[i] = input
    THEN Some((CHOOSE i \in 1 .. Len(d.alphabet) :
                  /\ d.alphabet[i] = input
                  /\ \A j \in 1 .. i - 1 : d.alphabet[j] # input) - 1)
    ELSE None

\* DenseDFA::add_transition.
DenseAddTransition(d, from, input, to) ==
    IF Panicked(d) THEN d
    ELSE IF AlphabetIndexOf(d, input) = None THEN PanicWith(d, "invalid input")
    ELSE LET idx == AlphabetIndexOf(d, input)[1]
             from_index == from * Stride(d.out_transitions) + idx
             to_index == to * Stride(d.in_transitions) + idx
         IN IF from_index >= Len(d.out_transitions.trans)
               \/ to_index >= Len(d.in_transitions.trans)
            THEN PanicWith(d, "index out of bounds")
            ELSE [d EXCEPT !.out_transitions.trans[from_index + 1] = to,
                           !.in_transitions.trans[to_index + 1] = Append(@, from)]

\* DenseDFA::delta (None where the source panics).
Delta(d, from, input) ==
    IF from > NumberOfStates(d) THEN None
    ELSE IF AlphabetIndexOf(d, input) = None THEN None
    ELSE LET index == from * Pow2(d.out_transitions.stride_as_power_of_2)
                      + AlphabetIndexOf(d, input)[1]
         IN IF index >= Len(d.out_transitions.trans) THEN None
            ELSE Some(d.out_transitions.trans[index + 1])

\* DfaConfig::new_from_01: the ids of the sparse DFA in ascending order get
\* the dense ids 0, 1, ...
SortedIds(dfa) == SetToSeq(DOMAIN dfa.states)

\* A map that numbers the ids in descending order.
IdMapDescending(dfa) ==
    LET ids == SortedIds(dfa)
    IN [old_id \in DOMAIN dfa.states |->
           Len(ids) - (CHOOSE i \in 1 .. Len(ids) : ids[i] = old_id)]

IdMapFrom01(dfa) ==
    LET ids == SortedIds(dfa)
    IN [old_id \in DOMAIN dfa.states |->
           (CHOOSE i \in 1 .. Len(ids) : ids[i] = old_id) - 1]

NewFrom01(dfa) ==
    [number_of_states |-> Cardinality(DOMAIN dfa.states),
     alphabet |-> dfa.alphabet,
     start_state_id |-> dfa.start_state,
     accept_states |-> dfa.accept_states,
     id_map |-> IdMapFrom01(dfa)]

\* DenseDFA::init_with_config.
InitWithConfig(config) ==
    LET len == Len(config.alphabet)
        d == [alphabet |-> config.alphabet,
              out_transitions |-> NewWithNumAndStride(config.number_of_states, len, 0),
              in_transitions |-> NewWithNumAndStride(config.number_of_states, len, <<>>),
              start_state |-> None,
              accept_states |-> {},
              panic |-> None]
    IN IF config.start_state_id = None
       THEN PanicWith(d, "called Option::unwrap() on a None value")
       ELSE IF config.start_state_id[1] \notin DOMAIN config.id_map
               \/ \E id \in config.accept_states : id \notin DOMAIN config.id_map
       THEN PanicWith(d, "key not found in id_map")
       ELSE [d EXCEPT !.start_state = Some(config.id_map[config.start_state_id[1]]),
                      !.accept_states = { config.id_map[id] : id \in config.accept_states }]

\* The loop of build_from_sparse01_dfa over the sparse states in id order.
RECURSIVE EmitSparse(_, _, _, _, _)
EmitSparse(d, dfa, id_map, ids, new_id) ==
    IF new_id >= Len(ids) \/ Panicked(d) THEN d
    ELSE LET state == dfa.states[ids[new_id + 1]]
         IN IF state.zero_to \notin DOMAIN id_map \/ state.one_to \notin DOMAIN id_map
            THEN PanicWith(d, "key not found in id_map")
            ELSE EmitSparse(
                     DenseAddTransition(
                         DenseAddTransition(d, new_id, Byte0, id_map[state.zero_to]),
                         new_id, Byte1, id_map[state.one_to]),
                     dfa, id_map, ids, new_id + 1)

BuildFromSparse01Dfa(sparse_dfa) ==
    LET config == NewFrom01(sparse_dfa)
    IN EmitSparse(InitWithConfig(config), sparse_dfa, config.id_map,
                  SortedIds(sparse_dfa), 0)

(***************************************************************************)
(* Minimization: the table of state pairs, the groups of states the table  *)
(* leaves indistinguishable, and the DFA with each group merged.           *)
(***************************************************************************)
OrderPair(state1, state2) ==
    IF state1 < state2 THEN <<state1, state2>> ELSE <<state2, state1>>

StatePairNew == [associated |-> <<>>, distinguishable |-> FALSE]

\* PairTable::new: state_num - 1 rows of state_num pairs.
PairTableNew(state_num) ==
    [p \in (0 .. state_num - 2) \X (0 .. state_num - 1) |-> StatePairNew]

IsDistinguishable(table, state1, state2) ==
    table[OrderPair(state1, state2)].distinguishable

\* PairTable::distinguish, the recursion unrolled into a stack of pairs
\* still to be distinguished (the first is the one being visited).
RECURSIVE DistinguishLoop(_, _)
DistinguishLoop(table, work) ==
    IF work = <<>> THEN table
    ELSE LET p == OrderPair(Head(work)[1], Head(work)[2])
             table1 == [table EXCEPT ![p].distinguishable = TRUE]
         IN IF table1[p].associated = <<>>
            THEN DistinguishLoop(table1, Tail(work))
            ELSE DistinguishLoop([table1 EXCEPT ![p].associated = <<>>],
                                 table1[p].associated \o Tail(work))

Distinguish(table, state1, state2) == DistinguishLoop(table, <<<<state1, state2>>>>)

\* A first loop that marks no pair.
MarkNoPairs(d, table) == table

\* The first loop of compute_indistin_state_groups: an accepting and a
\* non-accepting state are distinguishable.
MarkAcceptPairs(d, table) ==
    [p \in DOMAIN table |->
        IF /\ p[1] < p[2]
           /\ (p[1] \in d.accept_states) # (p[2] \in d.accept_states)
        THEN [table[p] EXCEPT !.distinguishable = TRUE]
        ELSE table[p]]

\* The loop over the inputs for one pair: the table, and the pairs of
\* successors the pair was found to depend on.
RECURSIVE ScanInputs(_, _, _, _, _, _)
ScanInputs(d, table, state1, state2, inputs, temp_relation) ==
    IF inputs = <<>> THEN [table |-> table, temp_relation |-> temp_relation]
    ELSE LET to1 == Delta(d, state1, Head(inputs))[1]
             to2 == Delta(d, state2, Head(inputs))[1]
         IN IF to1 = to2
            THEN ScanInputs(d, table, state1, state2, Tail(inputs), temp_relation)
            ELSE IF IsDistinguishable(table, to1, to2)
            THEN [table |-> Distinguish(table, state1, state2),
                  temp_relation |-> temp_relation]
            ELSE ScanInputs(d, table, state1, state2, Tail(inputs),
                            Append(temp_relation, <<to1, to2>>))

\* A scan that records no dependency.
AddNoRelations(table, temp_relation, state1, state2) == table

RECURSIVE AddRelations(_, _, _, _)
AddRelations(table, temp_relation, state1, state2) ==
    IF temp_relation = <<>> THEN table
    ELSE LET p == OrderPair(Head(temp_relation)[1], Head(temp_relation)[2])
         IN AddRelations(
                [table EXCEPT ![p].associated = Append(@, OrderPair(state1, state2))],
                Tail(temp_relation), state1, state2)

ScanPair(d, table, state1, state2) ==
    IF IsDistinguishable(table, state1, state2) THEN table
    ELSE LET r == ScanInputs(d, table, state1, state2, d.alphabet, <<>>)
         IN IF ~IsDistinguishable(r.table, state1, state2)
            THEN AddRelations(r.table, r.temp_relation, state1, state2)
            ELSE r.table

\* The pairs (state1, state2) with state1 < state2 < bound, row by row.
RECURSIVE PairsBelow(_, _, _)
PairsBelow(state1, state2, bound) ==
    IF state1 >= bound - 1 THEN <<>>
    ELSE IF state2 >= bound THEN PairsBelow(state1 + 1, state1 + 2, bound)
    ELSE <<<<state1, state2>>>> \o PairsBelow(state1, state2 + 1, bound)

RECURSIVE ScanPairs(_, _, _)
ScanPairs(d, table, pairs) ==
    IF pairs = <<>> THEN table
    ELSE ScanPairs(d, ScanPair(d, table, Head(pairs)[1], Head(pairs)[2]), Tail(pairs))

\* The pair table when the scan of compute_indistin_state_groups is over.
FilledTable(d) ==
    LET n == NumberOfStates(d)
    IN ScanPairs(d, MarkAcceptPairs(d, PairTableNew(n)), PairsBelow(0, 1, n))

\* A for_each that stops one row earlier still.
ForEachPairsShort(state_num) == PairsBelow(0, 1, state_num - 2)

\* PairTable::for_each visits the pairs below table.len(), the number of rows.
ForEachPairs(state_num) == PairsBelow(0, 1, state_num - 1)

\* IndistinGroups::contains_at, 1-based; None when no group holds the state.
ContainsAt(groups, state) ==
    IF \E i \in 1 .. Len(groups) : state \in groups[i]
    THEN Some(CHOOSE i \in 1 .. Len(groups) :
                 /\ state \in groups[i]
                 /\ \A j \in 1 .. i - 1 : state \notin groups[j])
    ELSE None

RemoveAt(seq, i) == SubSeq(seq, 1, i - 1) \o SubSeq(seq, i + 1, Len(seq))

\* IndistinGroups::insert_pair.  g is [groups, panic].
InsertPair(g, s1, s2) ==
    IF g.panic # None THEN g
    ELSE
    LET state1 == OrderPair(s1, s2)[1]
        state2 == OrderPair(s1, s2)[2]
        group_index1 == ContainsAt(g.groups, state1)
        group_index2 == ContainsAt(g.groups, state2)
    IN IF group_index1 # None
       THEN IF group_index2 # None
            THEN IF group_index1 = group_index2 THEN g
                 ELSE LET group1 == g.groups[group_index1[1]]
                          rest1 == RemoveAt(g.groups, group_index1[1])
                      IN IF group_index2[1] > Len(rest1)
                         THEN [g EXCEPT !.panic = Some("removal index out of bounds")]
                         ELSE [g EXCEPT !.groups =
                                  Append(RemoveAt(rest1, group_index2[1]),
                                         group1 \cup rest1[group_index2[1]])]
            ELSE [g EXCEPT !.groups[group_index1[1]] = @ \cup {state2}]
       ELSE IF group_index2 # None
            THEN [g EXCEPT !.groups[group_index2[1]] = @ \cup {state1}]
            ELSE [g EXCEPT !.groups = Append(@, {state1, state2})]

RECURSIVE CollectGroups(_, _, _)
CollectGroups(table, g, pairs) ==
    IF pairs = <<>> THEN g
    ELSE CollectGroups(table,
             IF ~table[Head(pairs)].distinguishable
             THEN InsertPair(g, Head(pairs)[1], Head(pairs)[2])
             ELSE g,
             Tail(pairs))

\* compute_indistin_state_groups.  With a single state table.len() - 1
\* overflows in for_each.
ComputeIndistinStateGroups(d) ==
    LET n == NumberOfStates(d)
    IN IF n < 2
       THEN [groups |-> <<>>, panic |-> Some("attempt to subtract with overflow")]
       ELSE CollectGroups(FilledTable(d), [groups |-> <<>>, panic |-> None],
                          ForEachPairs(n))

NumOfGroups(groups) == Len(groups)

RECURSIVE NumOfIndistinStates(_)
NumOfIndistinStates(groups) ==
    IF groups = <<>> THEN 0
    ELSE Cardinality(Head(groups)) + NumOfIndistinStates(Tail(groups))

\* IndistinGroups::remap: the old-id -> new-id map.  A state of no group gets
\* the next free id, a state of group g the id number_of_distin + g.
RECURSIVE RemapLoop(_, _, _, _, _)
RemapLoop(groups, old_id, max_len, new_id, number_of_distin) ==
    IF old_id >= max_len THEN <<>>
    ELSE IF ContainsAt(groups, old_id) # None
         THEN <<number_of_distin + ContainsAt(groups, old_id)[1] - 1>>
              \o RemapLoop(groups, old_id + 1, max_len, new_id, number_of_distin)
         ELSE <<new_id>>
              \o RemapLoop(groups, old_id + 1, max_len, new_id + 1, number_of_distin)

\* A map that numbers the groups first and the states of no group after
\* them.
RemapGroupsFirst(groups, max_len) ==
    [i \in 1 .. max_len |->
        IF ContainsAt(groups, i - 1) # None THEN ContainsAt(groups, i - 1)[1] - 1
        ELSE Len(groups)
             + Cardinality({ old_id \in 0 .. i - 2 : ContainsAt(groups, old_id) = None })]

\* The map as a sequence: the new id of old id i is element i + 1.
Remap(groups, max_len) ==
    RemapLoop(groups, 0, max_len, 0, max_len - NumOfIndistinStates(groups))

\* A configuration that makes room for the groups without taking the
\* merged states out.
NewForMinimizeKeepAll(d, groups) ==
    LET id_map == Remap(groups, NumberOfStates(d))
    IN [number_of_states |-> NumberOfStates(d) + NumOfGroups(groups),
        alphabet |-> d.alphabet,
        start_state_id |-> d.start_state,
        accept_states |-> d.accept_states,
        id_map |-> [old_id \in 0 .. NumberOfStates(d) - 1 |-> id_map[old_id + 1]]]

\* DfaConfig::new_for_minimize.
NewForMinimize(d, groups) ==
    LET id_map == Remap(groups, NumberOfStates(d))
    IN [number_of_states |-> NumberOfStates(d) - NumOfIndistinStates(groups)
                             + NumOfGroups(groups),
        alphabet |-> d.alphabet,
        start_state_id |-> d.start_state,
        accept_states |-> d.accept_states,
        id_map |-> [old_id \in 0 .. NumberOfStates(d) - 1 |-> id_map[old_id + 1]]]

\* The transitions of old state old_id, copied through the id map.
RECURSIVE CopyTransitions(_, _, _, _, _)
CopyTransitions(m, d, id_map, old_id, inputs) ==
    IF inputs = <<>> \/ Panicked(m) THEN m
    ELSE LET to == Delta(d, old_id, Head(inputs))
         IN IF to = None THEN PanicWith(m, "no such a state")
            ELSE CopyTransitions(
                     DenseAddTransition(m, id_map[old_id], Head(inputs), id_map[to[1]]),
                     d, id_map, old_id, Tail(inputs))

\* First loop of minimize: the states of no group.
RECURSIVE CopySingles(_, _, _, _, _)
CopySingles(m, d, groups, id_map, old_state_id) ==
    IF old_state_id >= NumberOfStates(d) THEN m
    ELSE CopySingles(
             IF ContainsAt(groups, old_state_id) # None THEN m
             ELSE CopyTransitions(m, d, id_map, old_state_id, d.alphabet),
             d, groups, id_map, old_state_id + 1)

\* Second loop of minimize: one member of each group, pick[g], stands for
\* the group (the first the HashSet's iterator yields).
RECURSIVE CopyGroups(_, _, _, _, _)
CopyGroups(m, d, id_map, pick, g) ==
    IF g > Len(pick) THEN m
    ELSE CopyGroups(CopyTransitions(m, d, id_map, pick[g], d.alphabet),
                    d, id_map, pick, g + 1)

\* The members a HashSet's iterator may yield first, one per group.
Picks(groups) ==
    { pick \in [1 .. Len(groups) -> UNION SeqToSet(groups)] :
         \A g \in 1 .. Len(groups) : pick[g] \in groups[g] }

\* The assert_eq! that ends remap: the states of no group number
\* max_len less the sizes of the groups.
RemapAssertHolds(groups, max_len) ==
    Cardinality({ old_id \in 0 .. max_len - 1 : ContainsAt(groups, old_id) = None })
        = max_len - NumOfIndistinStates(groups)

\* DenseDFA::minimize once the groups are known and there is at least one.
MinimizeWith(d, groups, pick) ==
    LET config == NewForMinimize(d, groups)
        minimized_dfa == InitWithConfig(config)
    IN IF ~RemapAssertHolds(groups, NumberOfStates(d))
       THEN PanicWith(minimized_dfa, "assertion failed: new_id == number_of_distin")
       ELSE CopyGroups(CopySingles(minimized_dfa, d, groups, config.id_map, 0),
                       d, config.id_map, pick, 1)

(***************************************************************************)
(* The inputs: every syntax tree of at most MaxNodes nodes over the leaves *)
(* 0, 1, [01] and the empty regex (Concat and Alternation with two         *)
(* children), and the regexes named below.                                 *)
(***************************************************************************)
Leaves == { Lit(<<Byte0>>), Lit(<<Byte1>>), Class(<<Byte0, Byte1>>), Empty }

RECURSIVE HirsOfSize(_)
HirsOfSize(k) ==
    IF k <= 1 THEN Leaves
    ELSE { Rep(x) : x \in HirsOfSize(k - 1) }
         \cup { Capture(x) : x \in HirsOfSize(k - 1) }
         \cup UNION { { Concat(<<x, y>>) : x \in HirsOfSize(a), y \in HirsOfSize(k - 1 - a) }
                      : a \in 1 .. k - 2 }
         \cup UNION { { Alternation(<<x, y>>) : x \in HirsOfSize(a), y \in HirsOfSize(k - 1 - a) }
                      : a \in 1 .. k - 2 }

\* "0"
Re0 == Lit(<<Byte0>>)
\* "0*1"
Re0Star1 == Concat(<<Rep(Lit(<<Byte0>>)), Lit(<<Byte1>>)>>)
\* "(0|1)*1"
ReLast1 == Concat(<<Rep(Capture(Class(<<Byte0, Byte1>>))), Lit(<<Byte1>>)>>)
\* ""
ReEmpty == Empty
\* "(0|1)*"
ReAll == Rep(Capture(Class(<<Byte0, Byte1>>)))
\* "[01]*|(?:01)*"
ReAllOr01Star == Alternation(<<Rep(Class(<<Byte0, Byte1>>)), Rep(Lit(<<Byte0, Byte1>>))>>)
\* "0(?:01|(?:01)*)"
Re0Then01 ==
    Concat(<<Lit(<<Byte0>>),
             Alternation(<<Lit(<<Byte0, Byte1>>), Rep(Lit(<<Byte0, Byte1>>))>>)>>)
\* "^0"
ReLook == Concat(<<Look, Lit(<<Byte0>>)>>)
\* "0*10"
Re0Star10 == Concat(<<Rep(Lit(<<Byte0>>)), Lit(<<Byte1, Byte0>>)>>)
\* "(?:000|100)1"
Re000Or100Then1 ==
    Concat(<<Alternation(<<Lit(<<Byte0, Byte0, Byte0>>), Lit(<<Byte1, Byte0, Byte0>>)>>),
             Lit(<<Byte1>>)>>)
\* "0*1[01]"
Re0Star1Any ==
    Concat(<<Rep(Lit(<<Byte0>>)), Lit(<<Byte1>>), Class(<<Byte0, Byte1>>)>>)
\* The bytes of "ab".
AsciiAB == <<97, 98>>
\* "a|b"
ReAOrB == Alternation(<<Lit(<<AsciiAB[1]>>), Lit(<<AsciiAB[2]>>)>>)
\* "[01]|a"
Re01OrA == Alternation(<<Class(<<Byte0, Byte1>>), Lit(<<AsciiAB[1]>>)>>)

Scenarios ==
    { Re0, Re0Star1, ReLast1, ReEmpty, ReAll, ReAllOr01Star, Re0Then01, ReLook,
      ReAOrB, Re01OrA, Re0Star10, Re000Or100Then1, Re0Star1Any }

Regexes == UNION { HirsOfSize(k) : k \in 1 .. MaxNodes } \cup Scenarios

(***************************************************************************)
(* NFAs without epsilon transitions that a caller builds with the methods  *)
(* of NFA and hands to build_dfa_from_nfa: k NonEpsilon states, at most    *)
(* one transition per state and input, start state 0, one accept state.    *)
(***************************************************************************)
\* What hir holds in a run that starts from such an NFA.
NoRegex == Node("NoRegex", <<>>, <<>>)

RECURSIVE AddNonEpsilonStates(_, _)
AddNonEpsilonStates(n, k) ==
    IF k = 0 THEN n ELSE AddNonEpsilonStates(AddState(n, NewNonEpsilon), k - 1)

RECURSIVE AddTransitions(_, _, _)
AddTransitions(n, delta, keys) ==
    IF keys = <<>> THEN n
    ELSE LET key == Head(keys)
         IN AddTransitions(
                IF delta[key] = None THEN n
                ELSE AddTransition(n, key[1], key[2], delta[key][1]),
                delta, Tail(keys))

HandBuiltNfa(k, delta, accept) ==
    LET keys == [i \in 1 .. 2 * k |->
                    <<(i - 1) \div 2, IF i % 2 = 1 THEN Byte0 ELSE Byte1>>]
    IN SetAcceptState(
           SetStartState(AddTransitions(AddNonEpsilonStates(InitEmpty, k), delta, keys), 0),
           accept)

HandBuiltNfas ==
    UNION { { HandBuiltNfa(k, delta, accept) :
                delta \in [(0 .. k - 1) \X {Byte0, Byte1}
                              -> {None} \cup { Some(t) : t \in 0 .. k - 1 }],
                accept \in 0 .. k - 1 }
            : k \in 1 .. MaxNfaStates }

\* An NFA of k states, as k calls of add_non_epsilon_state leave it, whose
\* one transition is from state 0 to state 1 on '0'.
LargeNfa(k) ==
    SetAcceptState(
        SetStartState(
            AddTransition([InitEmpty EXCEPT !.states = [i \in 1 .. k |-> NewNonEpsilon]],
                          0, Byte0, 1),
            0),
        k - 1)

\* NFAs at the ceiling of build_dfa_from_nfa and one state above it.
LargeNfas == { LargeNfa(StateCeiling), LargeNfa(StateCeiling + 1) }

(***************************************************************************)
(* The pipeline of re_to_dfa as a state machine.  pc is the place in       *)
(* re_to_dfa; failure holds the Err or the panic message the run ended     *)
(* with.                                                                   *)
(***************************************************************************)
\* IndistinGroups { groups: Vec::new() }
NoGroups == [groups |-> <<>>, panic |-> None]

Init ==
    /\ events = <<>>
    /\ builder = BuilderNew
    /\ nfa = None
    /\ new_dfa = None
    /\ newnew_dfa = None
    /\ minimized = None
    /\ second = None
    /\ failure = None
    /\ indistin_groups = NoGroups
    /\ inserted = {}
    /\ \/ /\ hir \in Regexes
          /\ non_epsilon_nfa = None
          /\ pc = "new"
       \/ /\ hir = NoRegex
          /\ non_epsilon_nfa \in { Some(n) : n \in HandBuiltNfas \cup LargeNfas }
          /\ pc = "non_epsilon"

Fail(msg) ==
    /\ pc' = "failed"
    /\ failure' = Some(msg)

\* build_nfa_from_re, up to the first callback of hir::visit.
BuildNfaFromRe ==
    /\ pc = "new"
    /\ builder' = BuilderStart(builder)
    /\ events' = Walk(hir)
    /\ pc' = "visit"
    /\ UNCHANGED groupvars
    /\ UNCHANGED <<hir, nfa, non_epsilon_nfa, new_dfa, newnew_dfa, minimized, second,
                   failure>>

\* hir::visit called with a Builder that build_nfa_from_re has not set up:
\* no start state, no accept state, no hole for the root.
VisitWithNewBuilder ==
    /\ pc = "new"
    /\ events' = Walk(hir)
    /\ pc' = "visit"
    /\ UNCHANGED groupvars
    /\ UNCHANGED <<hir, builder, nfa, non_epsilon_nfa, new_dfa, newnew_dfa, minimized,
                   second, failure>>

\* One callback of the visitor: visit_pre or visit_post on the next node.
Visit ==
    /\ pc = "visit"
    /\ events # <<>>
    /\ LET e == Head(events)
           b == IF e.ev = "pre" THEN VisitPre(builder, e) ELSE VisitPost(builder, e)
       IN /\ builder' = b
          /\ IF b.err # None THEN Fail(b.err[1]) /\ events' = events
             ELSE IF Panicked(b.nfa) THEN Fail(b.nfa.panic[1]) /\ events' = events
             ELSE /\ events' = Tail(events)
                  /\ UNCHANGED <<pc, failure>>
    /\ UNCHANGED groupvars
    /\ UNCHANGED <<hir, nfa, non_epsilon_nfa, new_dfa, newnew_dfa, minimized, second>>

\* Visitor::finish, which ends build_nfa_from_re.
VisitFinish ==
    /\ pc = "visit"
    /\ events = <<>>
    /\ LET b == Finish(builder)
       IN /\ builder' = b
          /\ IF Panicked(b.nfa) THEN Fail(b.nfa.panic[1]) /\ nfa' = nfa
             ELSE /\ nfa' = Some(b.nfa)
                  /\ pc' = "nfa"
                  /\ UNCHANGED failure
    /\ UNCHANGED groupvars
    /\ UNCHANGED <<hir, events, non_epsilon_nfa, new_dfa, newnew_dfa, minimized, second>>

EliminateEpsilon ==
    /\ pc = "nfa"
    /\ LET n == BuildNonEpsilonNfa(nfa[1])
       IN IF Panicked(n) THEN Fail(n.panic[1]) /\ non_epsilon_nfa' = non_epsilon_nfa
          ELSE /\ non_epsilon_nfa' = Some(n)
               /\ pc' = "non_epsilon"
               /\ UNCHANGED failure
    /\ UNCHANGED groupvars
    /\ UNCHANGED <<hir, events, builder, nfa, new_dfa, newnew_dfa, minimized, second>>

SubsetConstruction ==
    /\ pc = "non_epsilon"
    /\ LET d == BuildDfaFromNfa(non_epsilon_nfa[1])
       IN IF Panicked(d) THEN Fail(d.panic[1]) /\ new_dfa' = new_dfa
          ELSE /\ new_dfa' = Some(d)
               /\ pc' = "sparse"
               /\ UNCHANGED failure
    /\ UNCHANGED groupvars
    /\ UNCHANGED <<hir, events, builder, nfa, non_epsilon_nfa, newnew_dfa, minimized,
                   second>>

ToDense ==
    /\ pc = "sparse"
    /\ LET d == BuildFromSparse01Dfa(new_dfa[1])
       IN IF Panicked(d) THEN Fail(d.panic[1]) /\ newnew_dfa' = newnew_dfa
          ELSE /\ newnew_dfa' = Some(d)
               /\ pc' = "dense"
               /\ UNCHANGED failure
    /\ UNCHANGED groupvars
    /\ UNCHANGED <<hir, events, builder, nfa, non_epsilon_nfa, new_dfa, minimized, second>>

\* DenseDFA::minimize on d: out is the Option it returns.  The overflow of
\* for_each on a one-state DFA panics in a build with overflow checks and
\* wraps (the loop then visits nothing) in one without.
MinimizeOutcome(d, out, msg) ==
    LET g == ComputeIndistinStateGroups(d)
    IN IF g.panic # None
       THEN IF NumberOfStates(d) = 1
            THEN \/ out = None /\ msg = None
                 \/ out = None /\ msg = g.panic
            ELSE out = None /\ msg = g.panic
       ELSE IF NumOfGroups(g.groups) = 0 THEN out = None /\ msg = None
       ELSE \E pick \in Picks(g.groups) :
               LET m == MinimizeWith(d, g.groups, pick)
               IN IF Panicked(m) THEN out = None /\ msg = m.panic
                  ELSE out = Some(m) /\ msg = None

\* newnew_dfa.minimize() and the end of re_to_dfa.
Minimize ==
    /\ pc = "dense"
    /\ \E msg \in {None} \cup {Some(m) : m \in PanicMessages} :
          /\ MinimizeOutcome(newnew_dfa[1], minimized', msg)
          /\ IF msg # None THEN Fail(msg[1])
             ELSE pc' = "done" /\ UNCHANGED failure
    /\ UNCHANGED groupvars
    /\ UNCHANGED <<hir, events, builder, nfa, non_epsilon_nfa, new_dfa, newnew_dfa, second>>

\* A caller minimizes the minimized DFA once more.
MinimizeAgain ==
    /\ pc = "done"
    /\ minimized # None
    /\ \E msg \in {None} \cup {Some(m) : m \in PanicMessages} :
          /\ MinimizeOutcome(minimized[1], second', msg)
          /\ pc' = "again"
          /\ failure' = msg
    /\ UNCHANGED groupvars
    /\ UNCHANGED <<hir, events, builder, nfa, non_epsilon_nfa, new_dfa, newnew_dfa,
                   minimized>>

Next ==
    \/ BuildNfaFromRe
    \/ VisitWithNewBuilder
    \/ Visit
    \/ VisitFinish
    \/ EliminateEpsilon
    \/ SubsetConstruction
    \/ ToDense
    \/ Minimize
    \/ MinimizeAgain

Spec == Init /\ [][Next]_vars

(***************************************************************************)
(* insert_pair on its own: an IndistinGroups that starts empty and takes   *)
(* any sequence of pairs of distinct states, each pair once, until a call  *)
(* panics.                                                                 *)
(***************************************************************************)
GroupInit ==
    /\ hir = NoRegex
    /\ events = <<>>
    /\ builder = BuilderNew
    /\ nfa = None
    /\ non_epsilon_nfa = None
    /\ new_dfa = None
    /\ newnew_dfa = None
    /\ minimized = None
    /\ second = None
    /\ failure = None
    /\ pc = "groups"
    /\ indistin_groups = NoGroups
    /\ inserted = {}

InsertPairCall ==
    /\ pc = "groups"
    /\ indistin_groups.panic = None
    /\ Cardinality(inserted) < MaxInsertCalls
    /\ \E state1, state2 \in 0 .. MaxGroupStates - 1 :
          /\ state1 # state2
          /\ OrderPair(state1, state2) \notin inserted
          /\ indistin_groups' = InsertPair(indistin_groups, state1, state2)
          /\ inserted' = inserted \cup {OrderPair(state1, state2)}
    /\ UNCHANGED <<hir, events, builder, nfa, non_epsilon_nfa, new_dfa, newnew_dfa,
                   minimized, second, pc, failure>>

GroupNext == InsertPairCall

GroupSpec == GroupInit /\ [][GroupNext]_vars

(***************************************************************************)
(* What the properties speak of: the strings tried, acceptance by an NFA   *)
(* and by a dense DFA, Myhill-Nerode equivalence of the states of a dense  *)
(* DFA, equality of the languages of two dense DFAs, and trap states.      *)
(***************************************************************************)
Strings == UNION { [1 .. k -> {Byte0, Byte1}] : k \in 0 .. MaxStrLen }

\* The states an NFA may be in: S and all that epsilon transitions reach.
RECURSIVE EpsilonReach(_, _)
EpsilonReach(n, S) ==
    LET more == UNION { IF s < NumStates(n) /\ StateAt(n, s).kind = "Epsilon"
                        THEN SeqToSet(StateAt(n, s).eps) ELSE {} : s \in S }
    IN IF more \subseteq S THEN S ELSE EpsilonReach(n, S \cup more)

NfaStep(n, S, input) ==
    UNION { IF s < NumStates(n) /\ StateAt(n, s).kind = "NonEpsilon"
            THEN { tr[2] : tr \in { t \in StateAt(n, s).trans : t[1] = input } }
            ELSE {} : s \in S }

RECURSIVE NfaRun(_, _, _)
NfaRun(n, S, w) ==
    IF w = <<>> THEN EpsilonReach(n, S)
    ELSE NfaRun(n, NfaStep(n, EpsilonReach(n, S), Head(w)), Tail(w))

\* An NFA accepts w when the run ends in a state of accept_states or in a
\* state of kind Final.
NfaAccepts(n, w) ==
    LET S == NfaRun(n, {n.start_state[1]}, w)
    IN \/ S \cap SeqToSet(n.accept_states) # {}
       \/ \E s \in S : s < NumStates(n) /\ StateAt(n, s).kind = "Final"

\* Run delta from a state of a dense DFA.
RECURSIVE DfaRun(_, _, _)
DfaRun(d, q, w) ==
    IF w = <<>> THEN q ELSE DfaRun(d, Delta(d, q, Head(w))[1], Tail(w))

DfaAccepts(d, w) == DfaRun(d, d.start_state[1], w) \in d.accept_states

DfaStates(d) == 0 .. NumberOfStates(d) - 1

\* The pairs of states of d that some input string tells apart.
RECURSIVE NerodeGrow(_, _)
NerodeGrow(d, D) ==
    LET more == { p \in DfaStates(d) \X DfaStates(d) :
                     \E i \in 1 .. Len(d.alphabet) :
                        <<Delta(d, p[1], d.alphabet[i])[1],
                          Delta(d, p[2], d.alphabet[i])[1]>> \in D }
    IN IF more \subseteq D THEN D ELSE NerodeGrow(d, D \cup more)

NerodeDistinct(d) ==
    NerodeGrow(d, { p \in DfaStates(d) \X DfaStates(d) :
                       (p[1] \in d.accept_states) # (p[2] \in d.accept_states) })

\* No two distinct states of d are equivalent.
IsMinimal(d) ==
    \A p \in DfaStates(d) \X DfaStates(d) : p[1] # p[2] => p \in NerodeDistinct(d)

\* The Myhill-Nerode classes of the states of d.
NerodeClasses(d) ==
    { { q \in DfaStates(d) : <<p, q>> \notin NerodeDistinct(d) } : p \in DfaStates(d) }

\* The pairs (state of a, state of b) some input string leads to.
RECURSIVE PairReach(_, _, _)
PairReach(a, b, R) ==
    LET more == { <<Delta(a, p[1], a.alphabet[i])[1], Delta(b, p[2], a.alphabet[i])[1]>>
                  : p \in R, i \in 1 .. Len(a.alphabet) }
    IN IF more \subseteq R THEN R ELSE PairReach(a, b, R \cup more)

\* a and b accept the same strings.
SameLanguage(a, b) ==
    /\ a.alphabet = b.alphabet
    /\ \A p \in PairReach(a, b, { <<a.start_state[1], b.start_state[1]>> }) :
          (p[1] \in a.accept_states) <=> (p[2] \in b.accept_states)

\* The states from which some string leads to an accepting state: the
\* states that are not trap states.
RECURSIVE CoReach(_, _)
CoReach(d, S) ==
    LET more == { q \in DfaStates(d) :
                     \E i \in 1 .. Len(d.alphabet) : Delta(d, q, d.alphabet[i])[1] \in S }
    IN IF more \subseteq S THEN S ELSE CoReach(d, S \cup more)

NonTrapStates(d) == CoReach(d, d.accept_states)

\* The run is one of re_to_dfa (build_nfa_from_re has set the builder up)
\* and is over.
Ended == pc \in {"failed", "done", "again"} /\ builder.nfa.start_state # None
Returned == pc \in {"done", "again"}
\* The DFA re_to_dfa returns.
Result == IF minimized # None THEN minimized[1] ELSE newnew_dfa[1]

(***************************************************************************)
(* The NFA and its builder on their own: the runs of build_nfa_from_re up  *)
(* to the NFA it returns, and a caller that builds an NFA with add_state,  *)
(* add_transition and add_epsilon_transition.                              *)
(***************************************************************************)
NfaInit ==
    /\ events = <<>>
    /\ builder = BuilderNew
    /\ non_epsilon_nfa = None
    /\ new_dfa = None
    /\ newnew_dfa = None
    /\ minimized = None
    /\ second = None
    /\ failure = None
    /\ indistin_groups = NoGroups
    /\ inserted = {}
    /\ \/ /\ hir \in Regexes
          /\ nfa = None
          /\ pc = "new"
       \/ /\ hir = NoRegex
          /\ nfa = Some(InitEmpty)
          /\ pc = "build"

\* add_epsilon_state, add_non_epsilon_state, add_fail_state, add_final_state.
AddStateCall ==
    /\ pc = "build"
    /\ NumStates(nfa[1]) < MaxBuildStates
    /\ \E state \in {NewEpsilon, NewNonEpsilon, NewFail, NewFinal} :
          nfa' = Some(AddState(nfa[1], state))
    /\ UNCHANGED groupvars
    /\ UNCHANGED <<hir, events, builder, non_epsilon_nfa, new_dfa, newnew_dfa, minimized,
                   second, pc, failure>>

\* add_transition; a panic ends the run and leaves the NFA as it was.
AddTransitionCall ==
    /\ pc = "build"
    /\ \A id \in 0 .. NumStates(nfa[1]) - 1 :
          Len(StateAt(nfa[1], id).eps) + Cardinality(StateAt(nfa[1], id).trans)
              < MaxBuildEdges
    /\ \E from, to \in 0 .. NumStates(nfa[1]) - 1 :
          LET n == AddTransition(nfa[1], from, Byte0, to)
          IN IF Panicked(n) THEN Fail(n.panic[1]) /\ nfa' = nfa
             ELSE nfa' = Some(n) /\ UNCHANGED <<pc, failure>>
    /\ UNCHANGED groupvars
    /\ UNCHANGED <<hir, events, builder, non_epsilon_nfa, new_dfa, newnew_dfa, minimized,
                   second>>

\* add_epsilon_transition, likewise.
AddEpsilonTransitionCall ==
    /\ pc = "build"
    /\ \A id \in 0 .. NumStates(nfa[1]) - 1 :
          Len(StateAt(nfa[1], id).eps) + Cardinality(StateAt(nfa[1], id).trans)
              < MaxBuildEdges
    /\ \E from, to \in 0 .. NumStates(nfa[1]) - 1 :
          LET n == AddEpsilonTransition(nfa[1], from, to)
          IN IF Panicked(n) THEN Fail(n.panic[1]) /\ nfa' = nfa
             ELSE nfa' = Some(n) /\ UNCHANGED <<pc, failure>>
    /\ UNCHANGED groupvars
    /\ UNCHANGED <<hir, events, builder, non_epsilon_nfa, new_dfa, newnew_dfa, minimized,
                   second>>

NfaNext ==
    \/ BuildNfaFromRe
    \/ Visit
    \/ VisitFinish
    \/ AddStateCall
    \/ AddTransitionCall
    \/ AddEpsilonTransitionCall

NfaSpec == NfaInit /\ [][NfaNext]_vars

(***************************************************************************)
(* The properties.                                                         *)
(***************************************************************************)
ZerosThenOne(w) ==
    /\ w # <<>>
    /\ w[Len(w)] = Byte1
    /\ \A i \in 1 .. Len(w) - 1 : w[i] = Byte0

EndsInOne(w) == w # <<>> /\ w[Len(w)] = Byte1

\* C1: when re_to_dfa returns a DFA for a regex, the epsilon-NFA of
\* build_nfa_from_re and that DFA accept the same strings over {'0','1'} of
\* at most MaxStrLen symbols, the empty string among them.
C1_EndToEndAcceptance ==
    (Returned /\ hir \in Regexes) =>
        \A w \in Strings : NfaAccepts(nfa[1], w) <=> DfaAccepts(Result, w)

\* C2: the NFA build_non_epsilon_nfa returns accepts a string exactly when
\* the epsilon-bearing NFA it was given accepts it.
C2_EpsilonEliminationPreservesLanguage ==
    (nfa # None /\ non_epsilon_nfa # None) =>
        \A w \in Strings :
            NfaAccepts(nfa[1], w) <=> NfaAccepts(non_epsilon_nfa[1], w)

\* C3: when minimize returns None on a dense DFA, no two distinct states
\* of that DFA are Myhill-Nerode equivalent.
C3_NoneOnlyWhenMinimal ==
    /\ (Returned /\ minimized = None) => IsMinimal(newnew_dfa[1])
    /\ (pc = "again" /\ failure = None /\ second = None) => IsMinimal(minimized[1])

\* C4: when minimize(d) returns Some(m), m has one state per Myhill-Nerode
\* class of the states of d and no two distinct states of m are equivalent.
C4_SomeIsMinimal ==
    (Returned /\ minimized # None) =>
        /\ NumberOfStates(minimized[1]) = Cardinality(NerodeClasses(newnew_dfa[1]))
        /\ IsMinimal(minimized[1])

\* C5: when minimize(d) returned Some(m), minimize(m) returns None.
C5_SecondPassIsNone ==
    pc = "again" => (failure = None /\ second = None)

\* C6: when minimize(d) returns Some(m), m and d accept the same strings
\* over d's alphabet.
C6_MinimizePreservesLanguage ==
    /\ (Returned /\ minimized # None) =>
          /\ SameLanguage(newnew_dfa[1], minimized[1])
          /\ \A w \in Strings :
                DfaAccepts(newnew_dfa[1], w) <=> DfaAccepts(minimized[1], w)
    /\ (pc = "again" /\ second # None) => SameLanguage(minimized[1], second[1])

\* A run in which minimize returned Some(m) for a DFA with an accepting
\* and a rejecting state, so that strings fall on both sides.
C6_Witness ==
    /\ pc = "done"
    /\ minimized # None
    /\ NumberOfStates(minimized[1]) < NumberOfStates(newnew_dfa[1])
    /\ \E w \in Strings : DfaAccepts(newnew_dfa[1], w)
    /\ \E w \in Strings : ~DfaAccepts(newnew_dfa[1], w)

\* C7: for the regex "0", re_to_dfa returns a minimal DFA with exactly two
\* states that are not trap states, which accepts "0" and no other string.
C7_ScenarioZero ==
    (hir = Re0 /\ Ended) =>
        /\ Returned
        /\ IsMinimal(Result)
        /\ Cardinality(NonTrapStates(Result)) = 2
        /\ \A w \in Strings : DfaAccepts(Result, w) <=> w = <<Byte0>>

\* C8: for the regex "0*1", re_to_dfa returns a minimal DFA with exactly
\* two states that are not trap states, which accepts exactly the strings
\* of zero or more '0's followed by one '1'.
C8_ScenarioZeroStarOne ==
    (hir = Re0Star1 /\ Ended) =>
        /\ Returned
        /\ IsMinimal(Result)
        /\ Cardinality(NonTrapStates(Result)) = 2
        /\ \A w \in Strings : DfaAccepts(Result, w) <=> ZerosThenOne(w)

\* C9: for the empty regex, re_to_dfa returns a minimal DFA whose start
\* state is accepting and has no transition into a state that is not a
\* trap state.
C9_ScenarioEmpty ==
    (hir = ReEmpty /\ Ended) =>
        /\ Returned
        /\ IsMinimal(Result)
        /\ Result.start_state[1] \in Result.accept_states
        /\ \A i \in 1 .. Len(Result.alphabet) :
              Delta(Result, Result.start_state[1], Result.alphabet[i])[1]
                  \notin NonTrapStates(Result)

\* C10: for the regex "(0|1)*1", minimization puts the initial state and
\* the state reached from it on '0' into one equivalence group, and the
\* DFA returned is minimal, has exactly two states that are not trap
\* states and accepts exactly the strings that end in '1'.
C10_ScenarioLastSymbolOne ==
    (hir = ReLast1 /\ Ended) =>
        /\ Returned
        /\ minimized # None
        /\ LET d == newnew_dfa[1]
               start == d.start_state[1]
               after0 == Delta(d, start, Byte0)[1]
               groups == ComputeIndistinStateGroups(d).groups
           IN /\ start # after0
              /\ \E i \in 1 .. Len(groups) : {start, after0} \subseteq groups[i]
        /\ IsMinimal(minimized[1])
        /\ Cardinality(NonTrapStates(minimized[1])) = 2
        /\ \A w \in Strings : DfaAccepts(minimized[1], w) <=> EndsInOne(w)

\* The run on "(0|1)*1" has returned the minimized DFA.
C10_Witness ==
    /\ hir = ReLast1
    /\ pc = "done"
    /\ minimized # None
    /\ NumberOfStates(newnew_dfa[1]) = 3
    /\ NumberOfStates(minimized[1]) = 2

\* Index 0 of a dense DFA is a trap: not the start state, not accepting,
\* and every transition out of it leads back to it.
TrapSentinel(d) ==
    /\ d.start_state # Some(0)
    /\ 0 \notin d.accept_states
    /\ \A i \in 1 .. Len(d.alphabet) : Delta(d, 0, d.alphabet[i]) = Some(0)

\* C11: in every dense DFA that build_from_sparse01_dfa or minimize
\* produces, index 0 is the trap sentinel: it is not the start state, is
\* not accepting and all its transitions lead to 0.
C11_IndexZeroIsTrap ==
    /\ newnew_dfa # None => TrapSentinel(newnew_dfa[1])
    /\ minimized # None => TrapSentinel(minimized[1])
    /\ second # None => TrapSentinel(second[1])

AlphabetPanic == "alphabet is not {'0','1'}"
TooManyStatesPanic == "too many states"

\* C12: build_dfa_from_nfa fails, and produces no DFA, whenever the
\* alphabet observed on the NFA is not exactly {'0','1'}.
C12_AlphabetPrecondition ==
    (/\ non_epsilon_nfa # None
     /\ pc # "non_epsilon"
     /\ non_epsilon_nfa[1].alphabet # {Byte0, Byte1})
        => /\ pc = "failed"
           /\ new_dfa = None
           /\ failure \in {Some(AlphabetPanic), Some(TooManyStatesPanic)}

\* build_dfa_from_nfa has failed on the NFA of "a|b", whose alphabet is
\* {'a','b'}.
C12_Witness ==
    /\ hir = ReAOrB
    /\ non_epsilon_nfa # None
    /\ non_epsilon_nfa[1].alphabet = {AsciiAB[1], AsciiAB[2]}
    /\ pc = "failed"
    /\ failure = Some(AlphabetPanic)

\* C13: build_dfa_from_nfa fails with "too many states", and produces no
\* DFA, exactly when the NFA has more than 128 states: an NFA of 129 states
\* fails so, an NFA of 128 states or fewer never does.
C13_StateCeiling ==
    (non_epsilon_nfa # None /\ pc # "non_epsilon")
        => ((/\ pc = "failed"
             /\ failure = Some(TooManyStatesPanic)
             /\ new_dfa = None)
               <=> NumStates(non_epsilon_nfa[1]) > StateCeiling)

\* build_dfa_from_nfa has failed with "too many states" on an NFA of 129
\* states.
C13_Witness ==
    /\ non_epsilon_nfa # None
    /\ NumStates(non_epsilon_nfa[1]) = StateCeiling + 1
    /\ pc = "failed"
    /\ failure = Some(TooManyStatesPanic)
    /\ new_dfa = None

RECURSIVE HasLook(_)
HasLook(h) ==
    \/ h.kind = "Look"
    \/ \E i \in 1 .. Len(h.subs) : HasLook(h.subs[i])

\* C14: the builder fails, with no NFA, when visit_pre comes to a Look
\* node and when it comes to a node with the stack of holes empty; on a
\* tree without a Look node, set up by build_nfa_from_re, every callback
\* succeeds and finish returns an NFA.
C14_BuilderFailures ==
    [][ /\ (/\ pc = "visit" /\ events # <<>>
            /\ Head(events).ev = "pre"
            /\ Head(events).kind = "Look")
           => /\ pc' = "failed"
              /\ nfa' = None
              /\ failure' \in {Some(LookErr), Some(StackEmptyErr)}
        /\ (/\ pc = "visit" /\ events # <<>>
            /\ Head(events).ev = "pre"
            /\ builder.stack = <<>>)
           => /\ pc' = "failed"
              /\ nfa' = None
              /\ failure' = Some(StackEmptyErr)
        /\ (/\ pc = "visit"
            /\ builder.nfa.start_state # None
            /\ ~HasLook(hir))
           => /\ pc' \in {"visit", "nfa"}
              /\ failure' = None
              /\ pc' = "nfa" <=> events = <<>>
              /\ pc' = "nfa" => (nfa' # None /\ ~Panicked(nfa'[1]))
      ]_vars

\* visit_pre has come to the Look node of "^0" and the run has failed.
C14_Witness ==
    /\ hir = ReLook
    /\ builder.nfa.start_state # None
    /\ pc = "failed"
    /\ failure = Some(LookErr)
    /\ nfa = None

SparseNumberOfStates(dfa) == Cardinality(DOMAIN dfa.states)

\* C15: the minimized DFA has at most as many states as the dense DFA,
\* which has at most as many as the sparse DFA of the subset construction.
C15_StateCountMonotone ==
    /\ newnew_dfa # None =>
          NumberOfStates(newnew_dfa[1]) <= SparseNumberOfStates(new_dfa[1])
    /\ pc \in {"done", "again"} =>
          NumberOfStates(Result) <= NumberOfStates(newnew_dfa[1])
    /\ second # None => NumberOfStates(second[1]) <= NumberOfStates(minimized[1])

\* minimize has returned a DFA with fewer states than the dense DFA of a
\* regex.
C15_Witness ==
    /\ hir \in Regexes
    /\ pc = "done"
    /\ minimized # None
    /\ NumberOfStates(minimized[1]) < NumberOfStates(newnew_dfa[1])
    /\ NumberOfStates(newnew_dfa[1]) = SparseNumberOfStates(new_dfa[1])

\* The epsilon closure of a state holds an accept state.
ClosureReachesAccept(n, state) ==
    EpsilonReach(n, {state}) \cap SeqToSet(n.accept_states) # {}

\* C16: in build_non_epsilon_nfa a state with no delta-hat transition
\* becomes Final when it is an accept state of the old NFA or its epsilon
\* closure reaches one, and Fail otherwise.
C16_EmptyDeltaHatKinds ==
    nfa # None =>
        \A state_id \in 0 .. NumStates(nfa[1]) - 1 :
            GetDaltaHatTransitions(nfa[1], state_id) = {} =>
                NonEpsilonKind(nfa[1], state_id) =
                    IF ClosureReachesAccept(nfa[1], state_id) THEN NewFinal ELSE NewFail

\* C17: when build_non_epsilon_nfa has returned, start_state and
\* accept_states[0] are indices of the renumbered state table and are the
\* new ids of the start state and of the accept state.
C17_StartAndAcceptRenumbered ==
    (nfa # None /\ non_epsilon_nfa # None) =>
        LET before == BeforeRemapStates(nfa[1])
            id_map == RemapIdMap(before.states, 0)
            after == non_epsilon_nfa[1]
        IN /\ after.start_state[1] < NumStates(after)
           /\ after.accept_states[1] < NumStates(after)
           /\ id_map[before.start_state[1] + 1] = Some(after.start_state[1])
           /\ id_map[before.accept_states[1] + 1] = Some(after.accept_states[1])

\* The states joined to those of S by the pairs.
RECURSIVE Connected(_, _)
Connected(pairs, S) ==
    LET more == { p[1] : p \in { q \in pairs : q[2] \in S } }
                \cup { p[2] : p \in { q \in pairs : q[1] \in S } }
    IN IF more \subseteq S THEN S ELSE Connected(pairs, S \cup more)

\* The sets of states the pairs connect.
Components(pairs) ==
    { Connected(pairs, {p[1]}) : p \in pairs }

\* C18: after any sequence of insert_pair calls the groups are pairwise
\* disjoint, each has at least 2 members, and they are exactly the sets of
\* states connected through the inserted pairs (so a pair across two
\* groups has merged those two and left the others as they were).
C18_GroupsAreComponents ==
    pc = "groups" =>
        LET groups == indistin_groups.groups
        IN /\ indistin_groups.panic = None
           /\ \A i, j \in 1 .. Len(groups) : i # j => groups[i] \cap groups[j] = {}
           /\ \A i \in 1 .. Len(groups) : Cardinality(groups[i]) >= 2
           /\ SeqToSet(groups) = Components(inserted)

\* In d every member of a group of compute_indistin_state_groups has, on
\* every input, the same successor once mapped through the id map of
\* remap, and minimize builds the same transitions whichever members stand
\* for the groups.
RepresentativeIndependent(d) ==
    LET g == ComputeIndistinStateGroups(d)
        id_map == Remap(g.groups, NumberOfStates(d))
    IN g.panic = None =>
          /\ \A i \in 1 .. Len(g.groups) : \A p, q \in g.groups[i] :
                \A k \in 1 .. Len(d.alphabet) :
                   id_map[Delta(d, p, d.alphabet[k])[1] + 1]
                       = id_map[Delta(d, q, d.alphabet[k])[1] + 1]
          /\ \A pick1, pick2 \in Picks(g.groups) :
                MinimizeWith(d, g.groups, pick1).out_transitions
                    = MinimizeWith(d, g.groups, pick2).out_transitions

\* C19: for every group that compute_indistin_state_groups computes and
\* every input, all members of the group have the same mapped successor, so
\* the DFA minimize builds does not depend on the member picked.
C19_RepresentativeIndependence ==
    /\ newnew_dfa # None => RepresentativeIndependent(newnew_dfa[1])
    /\ minimized # None => RepresentativeIndependent(minimized[1])

\* When the scan of compute_indistin_state_groups over d is over, a pair
\* of distinct states is marked exactly when some string tells the two
\* apart, and no marked pair still lists a pair that depends on it and is
\* not marked.
PairTableCorrect(d) ==
    NumberOfStates(d) >= 2 =>
        LET table == FilledTable(d)
        IN /\ \A p \in DfaStates(d) \X DfaStates(d) :
                 p[1] < p[2] =>
                    (table[p].distinguishable <=> p \in NerodeDistinct(d))
           /\ \A p \in DOMAIN table :
                 table[p].distinguishable =>
                    \A i \in 1 .. Len(table[p].associated) :
                       table[table[p].associated[i]].distinguishable

\* C20: after the single scan over all pairs, a pair of distinct states is
\* marked distinguishable if and only if some input string leads the two
\* to states of differing acceptance; every pair that recorded a dependency
\* on a marked pair is marked, and the propagation of distinguish ends.
C20_PairTableCorrect ==
    /\ newnew_dfa # None => PairTableCorrect(newnew_dfa[1])
    /\ minimized # None => PairTableCorrect(minimized[1])

\* The scan has run on a DFA in which a pair recorded a dependency on
\* itself and was marked later, by the propagation from another pair.
C20_Witness ==
    /\ pc = "done"
    /\ LET d == newnew_dfa[1]
           n == NumberOfStates(d)
           pairs == PairsBelow(0, 1, n)
       IN /\ n >= 4
          /\ \E k \in 1 .. Len(pairs) :
                LET before == ScanPairs(d, MarkAcceptPairs(d, PairTableNew(n)),
                                        SubSeq(pairs, 1, k))
                    q == pairs[k]
                IN /\ ~before[q].distinguishable
                   /\ \E i \in 1 .. Len(before[q].associated) :
                         before[q].associated[i] = q
                   /\ q \in NerodeDistinct(d)
                   /\ FilledTable(d)[q].distinguishable

\* The layout of m, the DFA minimize built from d: as many states as d has
\* less the grouped ones plus the groups; a state of no group at the number
\* of ungrouped states below it; the members of group g (counted from 0)
\* at k + g, k the number of ungrouped states; start and accept states the
\* images of those of d; every transition the image of one of d.
MinimizedLayout(d, m) ==
    LET groups == ComputeIndistinStateGroups(d).groups
        n == NumberOfStates(d)
        grouped == UNION SeqToSet(groups)
        k == Cardinality((0 .. n - 1) \ grouped)
        image == [old_id \in 0 .. n - 1 |->
                     IF old_id \in grouped
                     THEN k + (CHOOSE g \in 1 .. Len(groups) : old_id \in groups[g]) - 1
                     ELSE Cardinality({ s \in 0 .. old_id - 1 : s \notin grouped })]
    IN /\ Len(groups) > 0
       /\ NumberOfStates(m) = n - Cardinality(grouped) + Len(groups)
       /\ \A g, h \in 1 .. Len(groups) : g # h => groups[g] \cap groups[h] = {}
       /\ m.start_state = Some(image[d.start_state[1]])
       /\ m.accept_states = { image[a] : a \in d.accept_states }
       /\ \A old_id \in (0 .. n - 1) \ grouped : \A i \in 1 .. Len(d.alphabet) :
             Delta(m, image[old_id], d.alphabet[i])
                 = Some(image[Delta(d, old_id, d.alphabet[i])[1]])
       /\ \A g \in 1 .. Len(groups) : \A i \in 1 .. Len(d.alphabet) :
             \E member \in groups[g] :
                Delta(m, k + g - 1, d.alphabet[i])
                    = Some(image[Delta(d, member, d.alphabet[i])[1]])

\* C21: when minimize returns a DFA it has old_count - grouped + groups
\* states, the ungrouped states keep their order at 0..k-1, group g is at
\* k + g, and start and accept states are mapped through the same map.
C21_MinimizedLayout ==
    /\ minimized # None => MinimizedLayout(newnew_dfa[1], minimized[1])
    /\ second # None => MinimizedLayout(minimized[1], second[1])

\* minimize has returned a DFA built from two groups and from states of no
\* group, one of them above a grouped state.
C21_Witness ==
    /\ minimized # None
    /\ LET d == newnew_dfa[1]
           groups == ComputeIndistinStateGroups(d).groups
           grouped == UNION SeqToSet(groups)
       IN /\ Len(groups) >= 2
          /\ \E s \in 0 .. NumberOfStates(d) - 1, t \in grouped :
                s \notin grouped /\ t < s

\* The NFA states that n reaches on input from a state of the set S.
NfaTargets(n, S, input) ==
    { t \in 0 .. NumStates(n) - 1 :
         \E i \in S : <<input, t>> \in StateAt(n, i).trans }

\* In the sparse DFA d built from n every id is a set of NFA states, bit i
\* for state i, the start id is 2^start, and the successor of an id on a
\* symbol is the set of the NFA states its members reach on that symbol.
SubsetStep(n, d) ==
    /\ d.start_state = Some(Pow2(n.start_state[1]))
    /\ \A S \in DOMAIN d.states :
          LET members == BitPositions(S, 0)
          IN /\ members \subseteq 0 .. NumStates(n) - 1
             /\ d.states[S].zero_to = EncodeSubset(NfaTargets(n, members, Byte0))
             /\ d.states[S].one_to = EncodeSubset(NfaTargets(n, members, Byte1))

\* C22: in the sparse DFA of build_dfa_from_nfa a state id is the bitmask
\* of its NFA states and the successor of S on '0' and on '1' is the OR of
\* 2^t over the NFA states t reached on that symbol from a member of S.
C22_SubsetStep ==
    new_dfa # None => SubsetStep(non_epsilon_nfa[1], new_dfa[1])

\* The sparse DFA keeps a state of two NFA states that reach different
\* states on the same symbol, so that its successor is a union.
C22_Witness ==
    /\ new_dfa # None
    /\ \E S \in DOMAIN new_dfa[1].states :
          \E i, j \in BitPositions(S, 0) : \E input \in {Byte0, Byte1} :
             /\ i # j
             /\ NfaTargets(non_epsilon_nfa[1], {i}, input) # {}
             /\ NfaTargets(non_epsilon_nfa[1], {j}, input) # {}
             /\ NfaTargets(non_epsilon_nfa[1], {i}, input)
                   # NfaTargets(non_epsilon_nfa[1], {j}, input)

\* The ids the sparse DFA d reaches from the ids of R.
RECURSIVE SparseReach(_, _)
SparseReach(d, R) ==
    LET more == { d.states[S].zero_to : S \in R \cap DOMAIN d.states }
                \cup { d.states[S].one_to : S \in R \cap DOMAIN d.states }
    IN IF more \subseteq R THEN R ELSE SparseReach(d, R \cup more)

\* C23: the state map of the sparse DFA holds exactly the ids reachable
\* from the start id: every kept state is reachable, every successor of a
\* kept state, the empty subset included, is a key, and the conversion to
\* the dense DFA never looks up a missing id.
C23_KeptStatesAreReachable ==
    /\ new_dfa # None =>
          LET d == new_dfa[1]
          IN /\ DOMAIN d.states = SparseReach(d, {d.start_state[1]})
             /\ \A S \in DOMAIN d.states :
                   d.states[S].zero_to \in DOMAIN d.states
                   /\ d.states[S].one_to \in DOMAIN d.states
    /\ (new_dfa # None /\ pc # "sparse") => newnew_dfa # None
    /\ failure # Some("key not found in id_map")

\* The conversion to the dense DFA has run on a sparse DFA from which the
\* singleton of an NFA state was removed as unreachable and in which a kept
\* state lacks a transition, its successor the empty subset.
C23_Witness ==
    /\ newnew_dfa # None
    /\ LET d == new_dfa[1]
       IN /\ \E i \in 0 .. NumStates(non_epsilon_nfa[1]) - 1 :
                Pow2(i) \notin DOMAIN d.states
          /\ 0 \in DOMAIN d.states
          /\ \E S \in DOMAIN d.states : S # 0 /\ d.states[S].zero_to = 0

\* The dense DFA d renumbers the sparse DFA s in ascending order of id:
\* an id goes to the number of ids below it, transitions, start state and
\* accept states go through that map.
OrderPreservingRenumbering(s, d) ==
    LET ids == DOMAIN s.states
        map == [id \in ids |-> Cardinality({ other \in ids : other < id })]
    IN /\ NumberOfStates(d) = Cardinality(ids)
       /\ { map[id] : id \in ids } = 0 .. Cardinality(ids) - 1
       /\ \A id \in ids :
             /\ Delta(d, map[id], Byte0) = Some(map[s.states[id].zero_to])
             /\ Delta(d, map[id], Byte1) = Some(map[s.states[id].one_to])
       /\ d.start_state = Some(map[s.start_state[1]])
       /\ d.accept_states = { map[id] : id \in s.accept_states }

\* C24: build_from_sparse01_dfa maps the n sparse ids one to one onto
\* 0..n-1 in ascending order of id, the dense successor of the image of s on
\* a symbol is the image of the sparse successor, and the dense start and
\* accept states are the images of the sparse ones.
C24_OrderPreservingRenumbering ==
    newnew_dfa # None => OrderPreservingRenumbering(new_dfa[1], newnew_dfa[1])

\* A sparse DFA of at least 4 states whose ids are not 0..n-1 already, with
\* an accept state and two states of different successors, has been
\* converted.
C24_Witness ==
    /\ newnew_dfa # None
    /\ LET s == new_dfa[1]
       IN /\ Cardinality(DOMAIN s.states) >= 4
          /\ \E id \in DOMAIN s.states : id >= Cardinality(DOMAIN s.states)
          /\ s.accept_states # {}
          /\ \E id \in DOMAIN s.states : s.states[id].zero_to # s.states[id].one_to

\* The strings of at most MaxStrLen symbols that are a string of A followed
\* by a string of B.
ConcatLang(A, B) ==
    { a \o b : a \in A, b \in { x \in B : \E y \in A : Len(y) + Len(x) <= MaxStrLen } }
        \cap Strings

\* The strings of at most MaxStrLen symbols made of strings of A.
RECURSIVE StarLang(_, _)
StarLang(A, acc) ==
    LET more == ConcatLang(acc, A)
    IN IF more \subseteq acc THEN acc ELSE StarLang(A, acc \cup more)

\* The language of a regular expression, cut at MaxStrLen symbols.
RECURSIVE Lang(_)
RECURSIVE ConcatLangs(_)
Lang(h) ==
    CASE h.kind = "Literal" -> {h.bytes} \cap Strings
      [] h.kind = "Class" -> { <<b>> : b \in SeqToSet(h.bytes) } \cap Strings
      [] h.kind = "Empty" -> { <<>> }
      [] h.kind = "Capture" -> Lang(h.subs[1])
      [] h.kind = "Repetition" -> StarLang(Lang(h.subs[1]), { <<>> })
      [] h.kind = "Alternation" -> UNION { Lang(h.subs[i]) : i \in 1 .. Len(h.subs) }
      [] h.kind = "Concat" -> ConcatLangs(h.subs)
      [] OTHER -> {}
ConcatLangs(hs) ==
    IF hs = <<>> THEN { <<>> } ELSE ConcatLang(Lang(Head(hs)), ConcatLangs(Tail(hs)))

\* The epsilon-NFA n accepts w: the run from the start state can end in the
\* accept state.
ReachesAccept(n, w) ==
    NfaRun(n, {n.start_state[1]}, w) \cap SeqToSet(n.accept_states) # {}

\* C25: the epsilon-NFA the builder returns for a regex of Concat,
\* Alternation, Repetition, Literal, Class, Capture and Empty nodes accepts
\* a string, from the start state to the accept state, exactly when the
\* string is in the language of the regex.
C25_ThompsonLanguage ==
    (nfa # None /\ hir \in Regexes) =>
        \A w \in Strings : ReachesAccept(nfa[1], w) <=> w \in Lang(hir)

\* The builder has returned the NFA of a Concat with a Repetition or an
\* Alternation directly inside it, which accepts a string of two symbols or
\* more and rejects another.
C25_Witness ==
    /\ nfa # None
    /\ hir.kind = "Concat"
    /\ \E i \in 1 .. Len(hir.subs) : hir.subs[i].kind \in {"Repetition", "Alternation"}
    /\ \E w \in Strings : Len(w) >= 2 /\ w \in Lang(hir) /\ ReachesAccept(nfa[1], w)
    /\ \E w \in Strings : w \notin Lang(hir) /\ ~ReachesAccept(nfa[1], w)

\* The holes visit_pre pushes for the children of a node.
HolesPushed(e) ==
    CASE e.kind = "Alternation" -> e.nsubs
      [] e.kind \in {"Concat", "Repetition", "Capture"} -> 1
      [] OTHER -> 0

\* C26: in build_nfa_from_re on a tree without a Look node, visit_pre never
\* finds the stack of holes empty and takes exactly the top hole (the holes
\* below stay, a Concatenation hole goes back with the node's end as its
\* come_from, the node's own holes go on top); visit_post of a Concat node
\* finds its Concatenation hole on top, removes it and adds the epsilon
\* transition from its come_from to its go_to; the stack is empty when
\* finish is called and when it returns.
C26_HoleStackDiscipline ==
    [][ (/\ pc = "visit"
         /\ builder.nfa.start_state # None
         /\ ~HasLook(hir))
        => /\ (events # <<>> /\ Head(events).ev = "pre")
                 => /\ builder.stack # <<>>
                    /\ LET keeps == IF Top(builder.stack).hole = "Concatenation"
                                    THEN 1 ELSE 0
                           below == Len(builder.stack) - 1
                       IN /\ Len(builder'.stack)
                                = below + keeps + HolesPushed(Head(events))
                          /\ SubSeq(builder'.stack, 1, below) = Pop(builder.stack)
                          /\ keeps = 1 =>
                                /\ builder'.stack[below + 1].hole = "Concatenation"
                                /\ builder'.stack[below + 1].go_to
                                      = Top(builder.stack).go_to
                                /\ builder'.stack[below + 1].come_from
                                      = NumStates(builder.nfa)
           /\ (events # <<>> /\ Head(events).ev = "post")
                 => IF Head(events).kind = "Concat"
                    THEN /\ builder.stack # <<>>
                         /\ Top(builder.stack).hole = "Concatenation"
                         /\ builder'.stack = Pop(builder.stack)
                         /\ Top(builder.stack).go_to
                               \in SeqToSet(StateAt(builder'.nfa,
                                                    Top(builder.stack).come_from).eps)
                    ELSE builder' = builder
           /\ events = <<>>
                 => /\ builder.stack = <<>>
                    /\ builder'.stack = <<>>
                    /\ nfa' = Some(builder.nfa)
      ]_vars

\* finish has returned, the stack empty, on a Concat of three children with
\* a Repetition among them, and on the way a Concat was closed.
C26_Witness ==
    /\ pc = "nfa"
    /\ builder.stack = <<>>
    /\ hir.kind = "Concat"
    /\ Len(hir.subs) >= 3
    /\ \E i \in 1 .. Len(hir.subs) : hir.subs[i].kind = "Repetition"

\* A state of n has one of the four kinds, epsilon transitions only when
\* it is Epsilon and other transitions only when it is NonEpsilon.
OneKind(n) ==
    \A id \in 0 .. NumStates(n) - 1 :
       LET st == StateAt(n, id)
       IN /\ st.kind \in {"Epsilon", "NonEpsilon", "Fail", "Final"}
          /\ st.eps # <<>> => st.kind = "Epsilon"
          /\ st.trans # {} => st.kind = "NonEpsilon"

\* On n, add_transition from a state that is not NonEpsilon and
\* add_epsilon_transition from a state that is not Epsilon panic, and the
\* calls from a state of the right kind add the transition.
WrongKindRejected(n) ==
    \A from, to \in 0 .. NumStates(n) - 1 :
       /\ IF StateAt(n, from).kind = "NonEpsilon"
          THEN /\ ~Panicked(AddTransition(n, from, Byte0, to))
               /\ <<Byte0, to>> \in StateAt(AddTransition(n, from, Byte0, to), from).trans
          ELSE AddTransition(n, from, Byte0, to)
                  = PanicWith(n, "add_transition: from state should be a non-epsilon state")
       /\ IF StateAt(n, from).kind = "Epsilon"
          THEN /\ ~Panicked(AddEpsilonTransition(n, from, to))
               /\ to \in SeqToSet(StateAt(AddEpsilonTransition(n, from, to), from).eps)
          ELSE AddEpsilonTransition(n, from, to)
                  = PanicWith(n, "add_epsilon_transition: from state should be a epsilon state")

\* C27: every NFA state has exactly one of the kinds Epsilon, NonEpsilon,
\* Fail, Final and never both epsilon and non-epsilon transitions;
\* add_transition on a state that is not NonEpsilon and
\* add_epsilon_transition on a state that is not Epsilon are rejected; and
\* build_nfa_from_re never attempts such a transition.
C27_StateKinds ==
    /\ OneKind(builder.nfa) /\ WrongKindRejected(builder.nfa)
    /\ nfa # None => (OneKind(nfa[1]) /\ WrongKindRejected(nfa[1]))
    /\ pc = "failed" =>
          IF hir \in Regexes
          THEN failure \in {Some(LookErr)}
          ELSE /\ nfa # None
               /\ \/ /\ failure = Some("add_transition: from state should be a non-epsilon state")
                     /\ \E id \in 0 .. NumStates(nfa[1]) - 1 :
                           StateAt(nfa[1], id).kind # "NonEpsilon"
                  \/ /\ failure = Some("add_epsilon_transition: from state should be a epsilon state")
                     /\ \E id \in 0 .. NumStates(nfa[1]) - 1 :
                           StateAt(nfa[1], id).kind # "Epsilon"

\* A caller added an epsilon transition to an Epsilon state and then had
\* add_transition rejected.
C27_Witness ==
    /\ pc = "failed"
    /\ hir = NoRegex
    /\ failure = Some("add_transition: from state should be a non-epsilon state")
    /\ \E id \in 0 .. NumStates(nfa[1]) - 1 :
          StateAt(nfa[1], id).kind = "Epsilon" /\ StateAt(nfa[1], id).eps # <<>>

\* C28: build_non_epsilon_nfa never fails with "map to a fail state"; when
\* the unreachable states have been marked, every transition of a state
\* that stays goes to a state that stays; and in the NFA it returns no state
\* is Epsilon or Fail and every transition goes to a state below the number
\* of states.
C28_RenumberingConsistent ==
    /\ failure # Some("map to a fail state")
    /\ (nfa # None /\ pc # "nfa") => non_epsilon_nfa # None
    /\ nfa # None =>
          LET before == BeforeRemapStates(nfa[1])
          IN /\ ~Panicked(before)
             /\ \A id \in 0 .. NumStates(before) - 1 :
                   StateAt(before, id).kind # "Fail" =>
                      \A tr \in StateAt(before, id).trans :
                         /\ tr[2] < NumStates(before)
                         /\ StateAt(before, tr[2]).kind # "Fail"
    /\ (nfa # None /\ non_epsilon_nfa # None) =>
          LET after == non_epsilon_nfa[1]
          IN \A id \in 0 .. NumStates(after) - 1 :
                /\ StateAt(after, id).kind \in {"NonEpsilon", "Final"}
                /\ \A tr \in StateAt(after, id).trans :
                      tr[2] \in 0 .. NumStates(after) - 1

\* build_non_epsilon_nfa has returned an NFA in which the target of a
\* transition was renumbered, a Fail state below it having been dropped,
\* and one of the dropped states was an unreachable one.
C28_Witness ==
    /\ nfa # None
    /\ non_epsilon_nfa # None
    /\ LET before == BeforeRemapStates(nfa[1])
           id_map == RemapIdMap(before.states, 0)
       IN /\ \E id \in 0 .. NumStates(before) - 1 :
                /\ StateAt(before, id).kind = "NonEpsilon"
                /\ \E tr \in StateAt(before, id).trans : id_map[tr[2] + 1] # Some(tr[2])
          /\ \E id \in NfaSearchUnreachableStates(before) :
                GetDaltaHatTransitions(nfa[1], id) # {}

\* C29: for every state of the NFA the builder returns, the loops of
\* epsilon_closure_and_dalta and epsilon_closure_to_non_epsilon come to an
\* end, and the states they visit are exactly the states reachable from the
\* given state over epsilon transitions only; the transitions and states
\* they return are those of the non-Epsilon states among them.
C29_EpsilonClosureExact ==
    nfa # None =>
       \A state \in 0 .. NumStates(nfa[1]) - 1 :
          LET reach == EpsilonReach(nfa[1], {state})
              dalta == EpsilonClosureAndDalta(nfa[1], state)
              non_epsilon == ClosureToNonEpsilonLoop(nfa[1], {}, <<state>>, {})
          IN /\ SeqToSet(dalta.closure) = reach
             /\ dalta.target =
                   UNION { IF StateAt(nfa[1], s).kind = "NonEpsilon"
                           THEN StateAt(nfa[1], s).trans ELSE {} : s \in reach }
             /\ non_epsilon.closure = reach
             /\ non_epsilon.target = { s \in reach : StateAt(nfa[1], s).kind # "Epsilon" }
             /\ EpsilonClosureToNonEpsilon(nfa[1], state) = non_epsilon.target

\* The builder has returned the NFA of a repetition of a repetition, and a
\* state of it lies on a cycle of epsilon transitions that has two states
\* or more and from which the closure leaves over another epsilon edge.
C29_Witness ==
    /\ nfa # None
    /\ hir.kind = "Repetition"
    /\ hir.subs[1].kind = "Repetition"
    /\ \E state \in 0 .. NumStates(nfa[1]) - 1 :
          /\ StateAt(nfa[1], state).kind = "Epsilon"
          /\ state \in EpsilonReach(nfa[1], SeqToSet(StateAt(nfa[1], state).eps))
          /\ state \notin SeqToSet(StateAt(nfa[1], state).eps)
          /\ Len(EpsilonClosureAndDalta(nfa[1], state).closure) >= 3
          /\ Len(StateAt(nfa[1], state).eps) >= 2

\* The NFA n passes the checks of build_dfa_from_nfa that come before the
\* seeding loop.
PassesDfaChecks(n) ==
    /\ ~TooManyStates(NumStates(n))
    /\ AlphabetIs01(n.alphabet)
    /\ n.start_state # None

====
